---- MODULE Spec2Model ----
(***************************************************************************)
(* A model of the JWS/JWT layer of js-rsasign (src/modules/jws-3.3.js).    *)
(*                                                                         *)
(* Strings on which the code does string arithmetic (algorithm names, the  *)
(* ':'-joined accept list, the compact serialization with its '.'          *)
(* separators) are sequences of characters or of items, so that substr,    *)
(* indexOf, join and split are computed as the code computes them.         *)
(***************************************************************************)
EXTENDS Integers, Sequences, FiniteSets, TLC

VARIABLES
    jws,      \* the compact serialization in flight (returned by sign, or forged)
    origin,   \* the sign call that produced jws, or NoCall for a forged string
    call,     \* the last call: its operation, arguments and outcome
    clock,    \* the wall clock read by getNow(), in seconds
    cert,     \* a Certificate with the TBSCertificate it was built on
    crl,      \* a CRL with the TBSCertList it was built on
    ret,      \* the last X.509 call: its name, inputs and outcome
    history,  \* what was appended to the TBSCertificate, and what was signed
    jwsObj    \* a JWS object: its parsedJWS field

vars == <<jws, origin, call, clock, cert, crl, ret, history, jwsObj>>

(***************************************************************************)
(* Bounds of the model.                                                    *)
(***************************************************************************)
MaxKeyId == 2     \* key pairs and shared secrets of each kind
MaxClock == 1     \* the wall clock runs from 0 to MaxClock
MaxClaims == 4    \* optional payload claims plus optional accept fields of one verifyJWT call
MaxExt == 2      \* extensions appended to one TBSCertificate
MaxNames == 3    \* entries of one KeyUsage 'names' list
MaxPathLen == 2  \* the largest pathLen given to BasicConstraints
MaxDNLen == 5    \* characters of one distinguished name string
MaxAttrs == 3    \* attributes of one multi-valued RDN string
MaxKeys == 2     \* keys present in one GeneralName parameter bag

(***************************************************************************)
(* JavaScript values.                                                      *)
(***************************************************************************)
Undefined == [t |-> "undefined"]
Null      == [t |-> "null"]
EmptyStr  == [raw |-> ""]          \* the empty string, as text and as hex
NoJWS     == << [nojws |-> TRUE] >>   \* no string in flight
NoCall    == [op |-> "none"]

\* JSON scalars and arrays; a dictionary is a record without a "t" field
\* a string on which the code computes: s is its sequence of characters
Str(x) == [t |-> "str", s |-> x]
Cat(x, y) == Str(x.s \o y.s)
Num(n) == [t |-> "num", n |-> n]
Arr(a) == [t |-> "array", a |-> a]

\* typeof v
TypeOf(v) ==
    IF "t" \notin DOMAIN v THEN "object"
    ELSE CASE v.t = "array" -> "object"
           [] v.t = "null"  -> "object"
           [] v.t = "str"   -> "string"
           [] v.t = "num"   -> "number"
           [] OTHER         -> "undefined"

\* Object.prototype.toString.call(a) === '[object Array]'
IsArray(a) == "t" \in DOMAIN a /\ a.t = "array"

\* One item of a compact serialization: the '.' character, or a run of
\* base64url characters that encodes the value v.
Dot == [dot |-> TRUE]
B64U(v) == [b64u |-> v]

(***************************************************************************)
(* String primitives of the language, on sequences.                        *)
(***************************************************************************)
\* String.prototype.substr(start, length)
Substr(x, start, n) ==
    Str(SubSeq(x.s, start + 1, IF start + n < Len(x.s) THEN start + n ELSE Len(x.s)))

\* String.prototype.indexOf(t): least 0-based position of t in s, or -1
IndexOf(x, y) ==
    LET s == x.s
        t == y.s
        hits == { i \in 0..(Len(s) - Len(t)) : SubSeq(s, i + 1, i + Len(t)) = t }
    IN  IF hits = {} THEN -1 ELSE CHOOSE i \in hits : \A j \in hits : i <= j

\* Array.prototype.join(sep) on an array of strings
RECURSIVE Join(_, _)
Join(a, sep) ==
    IF a = <<>> THEN Str(<<>>)
    ELSE IF Len(a) = 1 THEN a[1]
    ELSE Cat(Cat(a[1], sep), Join(Tail(a), sep))

\* String.prototype.split("."): the segments between the dots
RECURSIVE Split(_)
Split(s) ==
    LET dots == { i \in 1..Len(s) : s[i] = Dot }
    IN  IF dots = {} THEN << s >>
        ELSE LET d == CHOOSE i \in dots : \A j \in dots : i <= j
             IN  << SubSeq(s, 1, d - 1) >> \o Split(SubSeq(s, d + 1, Len(s)))

\* Array.prototype.indexOf(item) !== -1, by strict equality, scanning from 0
RECURSIVE ArrayIndexOf(_, _, _)
ArrayIndexOf(a, item, from) ==
    IF from >= Len(a) THEN -1
    ELSE IF a[from + 1] = item THEN from
    ELSE ArrayIndexOf(a, item, from + 1)

(***************************************************************************)
(* Algorithm names, as strings of characters.                              *)
(***************************************************************************)
HS256 == Str(<<"H", "S", "2", "5", "6">>)
HS384 == Str(<<"H", "S", "3", "8", "4">>)
HS512 == Str(<<"H", "S", "5", "1", "2">>)
RS256 == Str(<<"R", "S", "2", "5", "6">>)
RS384 == Str(<<"R", "S", "3", "8", "4">>)
RS512 == Str(<<"R", "S", "5", "1", "2">>)
ES256 == Str(<<"E", "S", "2", "5", "6">>)
ES384 == Str(<<"E", "S", "3", "8", "4">>)
ES512 == Str(<<"E", "S", "5", "1", "2">>)
PS256 == Str(<<"P", "S", "2", "5", "6">>)
PS384 == Str(<<"P", "S", "3", "8", "4">>)
PS512 == Str(<<"P", "S", "5", "1", "2">>)
none  == Str(<<"n", "o", "n", "e">>)
Colon == Str(<<":">>)
Hmac      == Str(<<"H", "m", "a", "c">>)
withRSA   == Str(<<"w", "i", "t", "h", "R", "S", "A">>)
withECDSA == Str(<<"w", "i", "t", "h", "E", "C", "D", "S", "A">>)
andMGF1   == Str(<<"a", "n", "d", "M", "G", "F", "1">>)
SHA256    == Str(<<"S", "H", "A", "2", "5", "6">>)
SHA384    == Str(<<"S", "H", "A", "3", "8", "4">>)
SHA512    == Str(<<"S", "H", "A", "5", "1", "2">>)

\* The keys of the jwsalg2sigalg table.
SignAlgs == { HS256, HS384, HS512, RS256, RS384, RS512, ES256, ES384,
              PS256, PS384, PS512, none }

\* static associative array of general signature algorithm name from JWS
\* algorithm name; Undefined for a name that is no key of the table
jwsalg2sigalg(alg) ==
    CASE alg = HS256 -> Cat(Hmac, SHA256)
      [] alg = HS384 -> Cat(Hmac, SHA384)
      [] alg = HS512 -> Cat(Hmac, SHA512)
      [] alg = RS256 -> Cat(SHA256, withRSA)
      [] alg = RS384 -> Cat(SHA384, withRSA)
      [] alg = RS512 -> Cat(SHA512, withRSA)
      [] alg = ES256 -> Cat(SHA256, withECDSA)
      [] alg = ES384 -> Cat(SHA384, withECDSA)
      [] alg = PS256 -> Cat(Cat(SHA256, withRSA), andMGF1)
      [] alg = PS384 -> Cat(Cat(SHA384, withRSA), andMGF1)
      [] alg = PS512 -> Cat(Cat(SHA512, withRSA), andMGF1)
      [] alg = none  -> none
      [] OTHER       -> Undefined

(***************************************************************************)
(* Collaborators outside this layer: JSON, base64url, key objects, the MAC *)
(* and signature engine, the ECDSA signature format.  Each is modelled by  *)
(* its documented contract.                                                *)
(***************************************************************************)
Ok(v)  == [ok |-> TRUE, val |-> v]
Fail   == [ok |-> FALSE, val |-> Undefined]

\* JSON.stringify(o): the JSON text of o
JSONstringify(o) == [json |-> o]

\* JSON.parse(s): the value a JSON text denotes; fails on any other text
JSONparse(s) == IF "json" \in DOMAIN s THEN Ok(s.json) ELSE Fail

\* typeof o == "object" and o is no array (null included: typeof null is
\* "object")
IsObject(o) == "t" \notin DOMAIN o \/ o = Null
\* isDictionary(o): a plain object
isDictionary(o) == "t" \notin DOMAIN o

\* utf8tob64u / hextob64u: the empty string encodes to the empty string,
\* anything else to a non-empty run of base64url characters
utf8tob64u(s) == IF s = EmptyStr THEN <<>> ELSE << B64U(s) >>
hextob64u(h)  == IF h = EmptyStr THEN <<>> ELSE << B64U(h) >>

\* b64utoutf8 / b64utohex: the inverse
b64utoutf8(u) ==
    IF u = <<>> THEN EmptyStr
    ELSE IF Len(u) = 1 THEN u[1].b64u
    ELSE [raw |-> "undecodable"]
b64utohex(u) == b64utoutf8(u)

\* Key material.  A key record stands for one key pair (or one shared
\* secret) id; "pem" is a string holding "-----BEGIN ", the other kinds are
\* a password spec, an RSAKeyEx object and an ECDSA object.
KeyIds    == 1..MaxKeyId
MacKey(i) == [kind |-> "mac", id |-> i]
RSAKey(i) == [kind |-> "RSAKeyEx", id |-> i]
ECKey(i)  == [kind |-> "ECDSA", id |-> i]
PEM(of, i) == [kind |-> "pem", of |-> of, id |-> i]
IsKeyRec(k) == "kind" \in DOMAIN k

\* typeof key == "string" && key.indexOf("-----BEGIN ") != -1
IsPEMString(k) == IsKeyRec(k) /\ k.kind = "pem"
\* getKey(pem): the key object a PEM string holds
getKey(k) == [kind |-> k.of, id |-> k.id]

\* new Mac({alg, pass}).updateString(msg).doFinal(): the password is a
\* password spec or a raw string; any other value is refused
MacDoFinal(sigAlg, pass, msg) ==
    IF IsKeyRec(pass) /\ pass.kind \in {"mac", "pem"}
    THEN Ok([mac |-> sigAlg, pass |-> pass, msg |-> msg])
    ELSE Fail

\* the key family a signature algorithm name needs
SigFamily(sigAlg) ==
    IF IndexOf(sigAlg, withECDSA) # -1 THEN "ECDSA" ELSE "RSAKeyEx"

\* Signature.init(key): a PEM string is read into its key object
SigInit(key) == IF IsPEMString(key) THEN getKey(key) ELSE key

\* new Signature({alg}).init(key).updateString(msg).sign()
SignatureSign(sigAlg, key, msg) ==
    LET k == SigInit(key)
    IN  IF IsKeyRec(k) /\ k.kind = SigFamily(sigAlg)
        THEN Ok([sig |-> sigAlg, id |-> k.id, msg |-> msg])
        ELSE Fail

\* new Signature({alg}).init(key).updateString(msg).verify(hSig)
SignatureVerify(sigAlg, key, msg, hSig) ==
    LET k == SigInit(key)
    IN  IF IsKeyRec(k) /\ k.kind = SigFamily(sigAlg)
        THEN Ok(hSig = [sig |-> sigAlg, id |-> k.id, msg |-> msg])
        ELSE Fail

\* ECDSA.asn1SigToConcatSig / concatSigToASN1Sig: DER signature to R||S
\* and back; the latter fails on a value that is no R||S concatenation
asn1SigToConcatSig(h) == [concat |-> h]
concatSigToASN1Sig(h) ==
    IF "concat" \in DOMAIN h THEN Ok(h.concat) ELSE Fail

(***************************************************************************)
(* Outcomes of a call: a returned value or a raised error, with the trace  *)
(* of the steps and collaborator calls made.                               *)
(***************************************************************************)
Return(v, trace) == [out |-> "return", val |-> v, err |-> "", trace |-> trace]
Throw(e, trace)  == [out |-> "throw", val |-> Undefined, err |-> e, trace |-> trace]

\* isSafeJSONString(s): 1 for the JSON text of an object that is no array
isSafeJSONString(s) ==
    LET o == JSONparse(s)
    IN  IF ~o.ok THEN 0
        ELSE IF ~IsObject(o.val) THEN 0
        ELSE IF o.val = Null THEN 0       \* null.constructor raises, caught
        ELSE 1

\* readSafeJSONString(s): the object, or null
readSafeJSONString(s) ==
    LET o == JSONparse(s)
    IN  IF ~o.ok THEN Null
        ELSE IF ~isDictionary(o.val) THEN Null
        ELSE o.val

(***************************************************************************)
(* sign(alg, spHeader, spPayload, key, pass)                               *)
(*                                                                         *)
(* spHeader and spPayload are [ty, val]: ty is the value's typeof, val the *)
(* object (or null) or the string.  pass only travels with key to          *)
(* Signature.init and is part of the key here.  The outcome also records   *)
(* the algorithm handed to the MAC/signature engine (sigAlg) and the       *)
(* header string that was encoded (sHeader).                               *)
(***************************************************************************)
SignThrow(e, trace) ==
    [out |-> "throw", val |-> NoJWS, err |-> e, trace |-> trace,
     alg |-> Undefined, sigAlg |-> Undefined, sHeader |-> Undefined]

SignReturn(v, trace, alg, sigAlg, sHeader) ==
    [out |-> "return", val |-> v, err |-> "", trace |-> trace,
     alg |-> alg, sigAlg |-> sigAlg, sHeader |-> sHeader]

\* step 6 and the assembly of the result
signDispatch(alg, sigAlg, sHeader, sPayload, key) ==
    LET uHeader == utf8tob64u(sHeader)
        uPayload == utf8tob64u(sPayload)
        uSignatureInput == uHeader \o << Dot >> \o uPayload
        Done(hSig, trace) ==
            SignReturn(uSignatureInput \o << Dot >> \o hextob64u(hSig),
                       trace, alg, sigAlg, sHeader)
    IN  IF Substr(sigAlg, 0, 4) = Hmac THEN
            IF key = Undefined
            THEN SignThrow("mac key shall be specified for HS* alg", <<>>)
            ELSE LET m == MacDoFinal(sigAlg, key, uSignatureInput)
                 IN  IF m.ok THEN Done(m.val, << "Mac" >>)
                     ELSE SignThrow("Mac", << "Mac" >>)
        ELSE IF IndexOf(sigAlg, withECDSA) # -1 THEN
            LET g == SignatureSign(sigAlg, key, uSignatureInput)
            IN  IF g.ok
                THEN Done(asn1SigToConcatSig(g.val),
                          << "Signature", "asn1SigToConcatSig" >>)
                ELSE SignThrow("Signature", << "Signature" >>)
        ELSE IF sigAlg # none THEN
            LET g == SignatureSign(sigAlg, key, uSignatureInput)
            IN  IF g.ok THEN Done(g.val, << "Signature" >>)
                ELSE SignThrow("Signature", << "Signature" >>)
        ELSE Done(EmptyStr, <<>>)

\* Faulty variant of algMismatch: the comparison is dropped.
algMismatchNever(alg, pHeader) == FALSE

\* alg !== pHeader['alg']
algMismatch(alg, pHeader) == alg # pHeader.alg

\* steps 2 to 5: the reconciliation of alg with the header's alg
signReconcile(alg0, pHeader0, sHeader0, sPayload, key) ==
    LET \* 2. use alg if defined in sHeader
        alg == IF (alg0 = Str(<<>>) \/ alg0 = Null \/ alg0 = Undefined)
                  /\ pHeader0.alg # Undefined
               THEN pHeader0.alg ELSE alg0
        \* 3. update sHeader to add alg if alg undefined
        amend == (alg # Str(<<>>) /\ alg # Null /\ alg # Undefined)
                 /\ pHeader0.alg = Undefined
        pHeader == IF amend THEN [pHeader0 EXCEPT !.alg = alg] ELSE pHeader0
        sHeader == IF amend THEN JSONstringify(pHeader) ELSE sHeader0
    IN  \* 4. check explicit algorithm doesn't match with JWS header.
        IF algMismatch(alg, pHeader)
        THEN SignThrow("alg and sHeader.alg doesn't match", <<>>)
        \* 5. set signature algorithm like SHA1withRSA
        ELSE IF jwsalg2sigalg(alg) = Undefined
        THEN SignThrow("unsupported alg name", <<>>)
        ELSE signDispatch(alg, jwsalg2sigalg(alg), sHeader, sPayload, key)

sign(alg, spHeader, spPayload, key) ==
    \* 1. check signatureInput(Header, Payload) is string or object
    IF spHeader.ty \notin {"string", "object"}
    THEN SignThrow("spHeader must be JSON string or object", <<>>)
    ELSE IF spHeader.ty = "string" /\ isSafeJSONString(spHeader.val) = 0
    THEN SignThrow("JWS Head is not safe JSON string", <<>>)
    ELSE
        LET pHeader == IF spHeader.ty = "object" THEN spHeader.val
                       ELSE readSafeJSONString(spHeader.val)
            sHeader == IF spHeader.ty = "object" THEN JSONstringify(pHeader)
                       ELSE spHeader.val
            sPayload == IF spPayload.ty = "object"
                        THEN JSONstringify(spPayload.val) ELSE spPayload.val
        IN  IF pHeader = Null
            THEN SignThrow("TypeError", <<>>)    \* pHeader['alg'] on null
            ELSE signReconcile(alg, pHeader, sHeader, sPayload, key)

(***************************************************************************)
(* verify(sJWS, key, acceptAlgs)                                           *)
(*                                                                         *)
(* The outcome is "true", "false" or "throw"; trace lists the numbered     *)
(* steps of the function that ran and the collaborator calls made:         *)
(* "acceptAlgs" (step 2), "keyNull" (3), "getKey" (3.2), "keyType" (3.3    *)
(* and 3.4), "table" (4), "Mac", "concatSigToASN1Sig", "Signature" (5).    *)
(***************************************************************************)
Outcome(out, e, trace) == [out |-> out, err |-> e, trace |-> trace]
Bool(b) == IF b THEN "true" ELSE "false"

\* 2. check whether alg is acceptable algorithms
algAccepted(alg, acceptAlgs) ==
    LET acceptAlgStr == Cat(Cat(Colon, Join(acceptAlgs.a, Colon)), Colon)
    IN  IndexOf(acceptAlgStr, Cat(Cat(Colon, alg), Colon)) # -1

\* Faulty variant of verifyNone: an unsigned string is accepted.
verifyNoneAccepts(t) == Outcome("true", "", t)

\* 5. verify, for alg 'none': validation is not supported
verifyNone(t) == Outcome("throw", "not supported", t)

\* 5. verify
verifyDispatch(sigAlg, key, uSignatureInput, hSig, t) ==
    IF sigAlg = none THEN verifyNone(t)
    ELSE IF Substr(sigAlg, 0, 4) = Hmac THEN
        IF key = Undefined
        THEN Outcome("throw", "hexadecimal key shall be specified for HMAC", t)
        ELSE LET m == MacDoFinal(sigAlg, key, uSignatureInput)
             IN  IF m.ok THEN Outcome(Bool(hSig = m.val), "", t \o << "Mac" >>)
                 ELSE Outcome("throw", "Mac", t \o << "Mac" >>)
    ELSE IF IndexOf(sigAlg, withECDSA) # -1 THEN
        LET c == concatSigToASN1Sig(hSig)
            t1 == t \o << "concatSigToASN1Sig" >>
        IN  IF ~c.ok THEN Outcome("false", "", t1)
            ELSE LET g == SignatureVerify(sigAlg, key, uSignatureInput, c.val)
                 IN  IF g.ok THEN Outcome(Bool(g.val), "", t1 \o << "Signature" >>)
                     ELSE Outcome("throw", "Signature", t1 \o << "Signature" >>)
    ELSE
        LET g == SignatureVerify(sigAlg, key, uSignatureInput, hSig)
        IN  IF g.ok THEN Outcome(Bool(g.val), "", t \o << "Signature" >>)
            ELSE Outcome("throw", "Signature", t \o << "Signature" >>)

\* Faulty variant of IsRSAKeyEx: the instanceof test is dropped.
IsRSAKeyExAny(key) == TRUE

\* Faulty variant of IsECDSA: the instanceof test is dropped.
IsECDSAAny(key) == TRUE

\* key instanceof RSAKeyEx, key instanceof ECDSA
IsRSAKeyEx(key) == IsKeyRec(key) /\ key.kind = "RSAKeyEx"
IsECDSA(key)    == IsKeyRec(key) /\ key.kind = "ECDSA"

\* steps 3 and 4: the key checks and the table lookup
verifyKey(alg, algType, key0, uSignatureInput, hSig, t) ==
    \* 3. check whether key is a proper key for alg.
    IF alg # none /\ key0 = Null
    THEN Outcome("throw", "key shall be specified to verify.", t \o << "keyNull" >>)
    ELSE
        LET \* 3.2. convert key object if key is a public key or cert PEM string
            key == IF IsPEMString(key0) THEN getKey(key0) ELSE key0
            t2  == t \o << "keyNull" >>
                     \o (IF IsPEMString(key0) THEN << "getKey" >> ELSE <<>>)
            rsa == algType = Str(<< "R", "S" >>) \/ algType = Str(<< "P", "S" >>)
            ec  == algType = Str(<< "E", "S" >>)
            t3  == t2 \o (IF rsa \/ ec THEN << "keyType" >> ELSE <<>>)
        IN  \* 3.3. check whether key is RSAKeyEx obj if alg is RS* or PS*.
            IF rsa /\ ~IsRSAKeyEx(key)
            THEN Outcome("throw", "key shall be a RSAKeyEx obj for RS* and PS* algs", t3)
            \* 3.4. check whether key is ECDSA obj if alg is ES*.
            ELSE IF ec /\ ~IsECDSA(key)
            THEN Outcome("throw", "key shall be a ECDSA obj for ES* algs", t3)
            \* 4. check whether alg is supported alg in jsjws.
            ELSE IF jwsalg2sigalg(alg) = Undefined
            THEN Outcome("throw", "unsupported alg name", t3 \o << "table" >>)
            ELSE verifyDispatch(jwsalg2sigalg(alg), key, uSignatureInput, hSig,
                                t3 \o << "table" >>)

\* Faulty variant of verifySignatureInput: the "." is left out.
verifySignatureInputNoDot(a) == a[1] \o a[2]

\* uSignatureInput = uHeader + "." + uPayload
verifySignatureInput(a) == a[1] \o << Dot >> \o a[2]

verify(sJWS, key, acceptAlgs) ==
    LET a == Split(sJWS)
    IN  IF Len(a) # 3 THEN Outcome("false", "", <<>>)
        ELSE
            LET uSignatureInput == verifySignatureInput(a)
                hSig == b64utohex(a[3])
                \* 1. parse JWS header
                pHeader == readSafeJSONString(b64utoutf8(a[1]))
            IN  IF pHeader = Null
                THEN Outcome("throw", "TypeError", <<>>)  \* pHeader['alg'] on null
                ELSE IF pHeader.alg = Undefined
                THEN Outcome("throw", "algorithm not specified in header", <<>>)
                ELSE
                    LET alg == pHeader.alg
                        algType == Substr(alg, 0, 2)
                        listed == IsArray(acceptAlgs) /\ Len(acceptAlgs.a) > 0
                        t == IF listed THEN << "acceptAlgs" >> ELSE <<>>
                    IN  IF listed /\ ~algAccepted(alg, acceptAlgs)
                        THEN Outcome("throw", "algorithm not accepted in the list", t)
                        ELSE verifyKey(alg, algType, key, uSignatureInput, hSig, t)

(***************************************************************************)
(* verifyJWT(sJWT, key, acceptField)                                       *)
(*                                                                         *)
(* now is the value getNow() returns at the call.  The outcome also holds  *)
(* the acceptField object as the call leaves it, and checks: the checks    *)
(* that were evaluated, in order.                                          *)
(***************************************************************************)
JWTOutcome(out, e, checks, af, sig) ==
    [out |-> out, err |-> e, checks |-> checks, acceptField |-> af, sig |-> sig]

NoVerify == [out |-> "none", err |-> "", trace |-> <<>>]

\* Faulty variant of inArray: only the first element is compared.
inArrayFirst(item, a) == Len(a.a) > 0 /\ a.a[1] = item

\* inArray(item, a): a.indexOf(item) !== -1
inArray(item, a) == ArrayIndexOf(a.a, item, 0) # -1

\* includedArray(a1, a2): every a1[i] is in a2
RECURSIVE includedFrom(_, _, _)
includedFrom(a1, a2, i) ==
    IF i >= Len(a1.a) THEN TRUE
    ELSE IF ~inArray(a1.a[i + 1], a2) THEN FALSE
    ELSE includedFrom(a1, a2, i + 1)
includedArray(a1, a2) == includedFrom(a1, a2, 0)

IsNumber(v) == v # Undefined /\ TypeOf(v) = "number"

\* Faulty variant of jwtSignature: the result of verify is not looked at.
jwtSignatureIgnored(sJWT, key, af, c) ==
    JWTOutcome("true", "", c \o << "verify" >>, af, verify(sJWT, key, af.alg))

\* 10 JWS signature check, 11 passed all check
jwtSignature(sJWT, key, af, c) ==
    LET r == verify(sJWT, key, af.alg)
        c1 == c \o << "verify" >>
    IN  IF r.out = "throw" THEN JWTOutcome("throw", r.err, c1, af, r)
        ELSE IF r.out # "true" THEN JWTOutcome("false", "", c1, af, r)
        ELSE JWTOutcome("true", "", c1, af, r)

\* Each check below is "skip" (not applicable), "pass", "fail" (the function
\* returns false) or "throw"; After continues with the next step.
After(r, name, c) == IF r = "skip" THEN c ELSE c \o << name >>

\* 9 JWT id 'jti' check
jwtJti(sJWT, key, p, af, c) ==
    LET r == IF p.jti # Undefined /\ af.jti # Undefined
             THEN (IF p.jti # af.jti THEN "fail" ELSE "pass")
             ELSE "skip"
    IN  IF r = "fail" THEN JWTOutcome("false", "", After(r, "jti", c), af, NoVerify)
        ELSE jwtSignature(sJWT, key, af, After(r, "jti", c))

\* 8.3 issued at time 'iat' check
jwtIat(sJWT, key, p, af, now, c) ==
    LET r == IF IsNumber(p.iat)
             THEN (IF now < p.iat.n - af.gracePeriod.n THEN "fail" ELSE "pass")
             ELSE "skip"
    IN  IF r = "fail" THEN JWTOutcome("false", "", After(r, "iat", c), af, NoVerify)
        ELSE jwtJti(sJWT, key, p, af, After(r, "iat", c))

\* 8.2 not before time 'nbf' check
jwtNbf(sJWT, key, p, af, now, c) ==
    LET r == IF IsNumber(p.nbf)
             THEN (IF now < p.nbf.n - af.gracePeriod.n THEN "fail" ELSE "pass")
             ELSE "skip"
    IN  IF r = "fail" THEN JWTOutcome("false", "", After(r, "nbf", c), af, NoVerify)
        ELSE jwtIat(sJWT, key, p, af, now, After(r, "nbf", c))

\* Faulty variant of jwtExp: a token is rejected from the second it expires.
jwtExpStrict(sJWT, key, p, af, now, c) ==
    LET r == IF IsNumber(p.exp)
             THEN (IF p.exp.n + af.gracePeriod.n <= now THEN "fail" ELSE "pass")
             ELSE "skip"
    IN  IF r = "fail" THEN JWTOutcome("false", "", After(r, "exp", c), af, NoVerify)
        ELSE jwtNbf(sJWT, key, p, af, now, After(r, "exp", c))

\* Faulty variant of jwtExp: an exp that is not a number rejects the token.
jwtExpTyped(sJWT, key, p, af, now, c) ==
    LET r == IF p.exp = Undefined THEN "skip"
             ELSE IF ~IsNumber(p.exp) THEN "fail"
             ELSE (IF p.exp.n + af.gracePeriod.n < now THEN "fail" ELSE "pass")
    IN  IF r = "fail" THEN JWTOutcome("false", "", After(r, "exp", c), af, NoVerify)
        ELSE jwtNbf(sJWT, key, p, af, now, After(r, "exp", c))

\* 8.1 expired time 'exp' check
jwtExp(sJWT, key, p, af, now, c) ==
    LET r == IF IsNumber(p.exp)
             THEN (IF p.exp.n + af.gracePeriod.n < now THEN "fail" ELSE "pass")
             ELSE "skip"
    IN  IF r = "fail" THEN JWTOutcome("false", "", After(r, "exp", c), af, NoVerify)
        ELSE jwtNbf(sJWT, key, p, af, now, After(r, "exp", c))

\* 8. time validity: the validation time and the grace period
jwtTime(sJWT, key, p, af0, now0, c) ==
    LET now == IF IsNumber(af0.verifyAt) THEN af0.verifyAt.n ELSE now0
        af  == IF af0.gracePeriod = Undefined \/ TypeOf(af0.gracePeriod) # "number"
               THEN [af0 EXCEPT !.gracePeriod = Num(0)] ELSE af0
    IN  jwtExp(sJWT, key, p, af, now, c)

\* 7. audience ('aud' in payload) check
jwtAud(sJWT, key, p, af, now, c) ==
    LET r == IF p.aud # Undefined /\ TypeOf(af.aud) = "object"
             THEN IF TypeOf(p.aud) = "string"
                  THEN (IF ~inArray(p.aud, af.aud) THEN "fail" ELSE "pass")
                  ELSE IF TypeOf(p.aud) = "object"
                  THEN IF p.aud = Null THEN "throw"      \* null.length
                       ELSE IF ~includedArray(p.aud, af.aud) THEN "fail"
                       ELSE "pass"
                  ELSE "skip"
             ELSE "skip"
    IN  IF r = "fail" THEN JWTOutcome("false", "", After(r, "aud", c), af, NoVerify)
        ELSE IF r = "throw"
        THEN JWTOutcome("throw", "TypeError", After(r, "aud", c), af, NoVerify)
        ELSE jwtTime(sJWT, key, p, af, now, After(r, "aud", c))

\* 6. subject ('sub' in payload) check
jwtSub(sJWT, key, p, af, now, c) ==
    LET r == IF p.sub # Undefined /\ TypeOf(af.sub) = "object"
             THEN (IF ~inArray(p.sub, af.sub) THEN "fail" ELSE "pass")
             ELSE "skip"
    IN  IF r = "fail" THEN JWTOutcome("false", "", After(r, "sub", c), af, NoVerify)
        ELSE jwtAud(sJWT, key, p, af, now, After(r, "sub", c))

\* 5. issuer ('iss' in payload) check
jwtIss(sJWT, key, p, af, now, c) ==
    LET r == IF p.iss # Undefined /\ TypeOf(af.iss) = "object"
             THEN (IF ~inArray(p.iss, af.iss) THEN "fail" ELSE "pass")
             ELSE "skip"
    IN  IF r = "fail" THEN JWTOutcome("false", "", After(r, "iss", c), af, NoVerify)
        ELSE jwtSub(sJWT, key, p, af, now, After(r, "iss", c))

\* Faulty variant of jwtAlgMissing: a missing acceptField.alg rejects the
\* token instead of raising.
jwtAlgMissingFalse(af) == JWTOutcome("false", "", << "alg" >>, af, NoVerify)

\* throw "acceptField.alg shall be specified"
jwtAlgMissing(af) ==
    JWTOutcome("throw", "acceptField.alg shall be specified", << "alg" >>,
               af, NoVerify)

\* 4. algorithm ('alg' in header) check
jwtAlg(sJWT, key, pHeader, pPayload, af, now) ==
    IF pHeader = Null
    THEN JWTOutcome("throw", "TypeError", <<>>, af, NoVerify)
    ELSE IF pHeader.alg = Undefined
    THEN JWTOutcome("false", "", << "alg" >>, af, NoVerify)
    ELSE IF af = Undefined       \* acceptField['alg'] on undefined
    THEN JWTOutcome("throw", "TypeError", << "alg" >>, af, NoVerify)
    ELSE IF af.alg = Undefined
    THEN jwtAlgMissing(af)
    ELSE IF ~inArray(pHeader.alg, af.alg)
    THEN JWTOutcome("false", "", << "alg" >>, af, NoVerify)
    ELSE IF pPayload = Null      \* pPayload['iss'] on null
    THEN JWTOutcome("throw", "TypeError", << "alg" >>, af, NoVerify)
    ELSE jwtIss(sJWT, key, pPayload, af, now, << "alg" >>)

verifyJWT(sJWT, key, acceptField, now) ==
    \* 1. parse JWT
    LET a == Split(sJWT)
    IN  IF Len(a) < 3        \* b64utohex(a[2]) on undefined
        THEN JWTOutcome("throw", "TypeError", <<>>, acceptField, NoVerify)
        ELSE
            LET \* 2. parse JWS header
                pHeader == readSafeJSONString(b64utoutf8(a[1]))
                \* 3. parse JWS payload
                pPayload == readSafeJSONString(b64utoutf8(a[2]))
            IN  jwtAlg(sJWT, key, pHeader, pPayload, acceptField, now)

(***************************************************************************)
(* getNow(): the wall clock                                                *)
(***************************************************************************)
getNow == clock

(***************************************************************************)
(* X.509 structures (asn1x509-1.0.js).                                     *)
(*                                                                         *)
(* ASN.1 primitives of asn1-1.0.js, by contract.  An object is a record    *)
(* with an "asn1" field naming its class; its encoding is the tree of its  *)
(* tag and contents, so that two encodings are equal exactly when the hex  *)
(* strings would be.                                                       *)
(***************************************************************************)


\* true and false
Boolean(b) == [t |-> "bool", b |-> b]
\* the truth value of v in a condition
Truthy(v) ==
    CASE v.t = "bool" -> v.b
      [] v.t = "num"  -> v.n # 0
      [] v.t = "str"  -> v.s # <<>>
      [] OTHER        -> FALSE

Ret(v)   == [out |-> "return", val |-> v, err |-> ""]
Raise(e) == [out |-> "throw", val |-> Undefined, err |-> e]
NoRet    == [op |-> "none"]
\* nothing appended, nothing signed
NoHistory == [appended |-> <<>>, signedOver |-> Null]

\* new ASN1Object(): nothing encoded yet
ASN1Object == [hTLV |-> Null, isModified |-> TRUE]

\* new C(params) for a class C of asn1-1.0.js, or for a class of this file
\* whose encoding is not looked into
New(class, params) == [asn1 |-> class, params |-> params]

\* a binary string without its trailing zeros (DER names no unused bit that
\* is not needed)
RECURSIVE TrimZeros(_)
TrimZeros(bits) ==
    IF bits # <<>> /\ bits[Len(bits)] = "0"
    THEN TrimZeros(SubSeq(bits, 1, Len(bits) - 1))
    ELSE bits

\* String.prototype.substring(from, to)
Substring(x, from, to) == Str(SubSeq(x.s, from + 1, to))

\* String.prototype.toLowerCase()
toLowerCase(x) ==
    LET upper == <<"A", "B", "C", "D", "E", "F", "G", "H", "I", "J", "K", "L", "M",
                   "N", "O", "P", "Q", "R", "S", "T", "U", "V", "W", "X", "Y", "Z">>
        lower == <<"a", "b", "c", "d", "e", "f", "g", "h", "i", "j", "k", "l", "m",
                   "n", "o", "p", "q", "r", "s", "t", "u", "v", "w", "x", "y", "z">>
        low(c) == IF \E k \in 1..26 : upper[k] = c
                  THEN lower[CHOOSE k \in 1..26 : upper[k] = c]
                  ELSE c
    IN  Str([i \in 1..Len(x.s) |-> low(x.s[i])])

(***************************************************************************)
(* Extensions.  A parameter bag is a record of the parameters the          *)
(* constructors read; a parameter that is not given is Undefined.          *)
(***************************************************************************)
ExtParams(critical, cA, pathLen, bin, names) ==
    [critical |-> critical, cA |-> cA, pathLen |-> pathLen, bin |-> bin,
     names |-> names]
NoExtParams == ExtParams(Undefined, Undefined, Undefined, Undefined, Undefined)

\* X500Extension.constructor: the criticality flag
X500Extension(params) ==
    IF params # Undefined /\ params.critical # Undefined
    THEN Truthy(params.critical)
    ELSE FALSE

\* KEYUSAGE_NAME of x509-1.1.js: the nine key usage bits, in bit order
KEYUSAGE_NAME ==
    << "digitalSignature", "nonRepudiation", "keyEncipherment",
       "dataEncipherment", "keyAgreement", "keyCertSign", "cRLSign",
       "encipherOnly", "decipherOnly" >>

\* the inner loop of KeyUsage.constructor: name against table entries j..
RECURSIVE keyUsageTable(_, _, _)
keyUsageTable(name, j, s) ==
    IF j >= Len(KEYUSAGE_NAME) THEN s
    ELSE keyUsageTable(name, j + 1,
            IF name = KEYUSAGE_NAME[j + 1]
            THEN Cat(Cat(Substring(s, 0, j), Str(<<"1">>)),
                     Substring(s, j + 1, Len(s.s)))
            ELSE s)

\* a loop that stops after the first name
keyUsageNamesFirstOnly(names, i, s) ==
    IF names = <<>> THEN s ELSE keyUsageTable(names[1], 0, s)

\* the outer loop of KeyUsage.constructor: names i..
RECURSIVE keyUsageNames(_, _, _)
keyUsageNames(names, i, s) ==
    IF i >= Len(names) THEN s
    ELSE keyUsageNames(names, i + 1, keyUsageTable(names[i + 1], 0, s))

KeyUsage(params) ==
    LET fromBin == IF params # Undefined /\ params.bin # Undefined
                   THEN New("DERBitString", params)
                   ELSE Null
        value == IF params # Undefined /\ params.names # Undefined
                 THEN New("DERBitString", [bin |->
                        keyUsageNames(params.names.a, 0,
                            Str(<<"0", "0", "0", "0", "0", "0", "0", "0", "0">>))])
                 ELSE fromBin
    IN  [asn1 |-> "X500Extension", ext |-> "KeyUsage", oid |-> "2.5.29.15",
         critical |-> X500Extension(params), asn1ExtnValue |-> value]

BasicConstraints(params) ==
    [asn1 |-> "X500Extension", ext |-> "BasicConstraints", oid |-> "2.5.29.19",
     critical |-> X500Extension(params),
     cA |-> IF params # Undefined /\ params.cA # Undefined
            THEN params.cA ELSE Boolean(FALSE),
     pathLen |-> IF params # Undefined /\ params.pathLen # Undefined
                 THEN params.pathLen ELSE Num(-1)]

\* the six extensions whose value is built from general names, key
\* identifiers or purposes: the extension keeps its parameters
OtherExtension(kind, oid, params) ==
    [asn1 |-> "X500Extension", ext |-> kind, oid |-> oid,
     critical |-> X500Extension(params), params |-> params]

\* a value that leaves out a pathLen of zero
basicConstraintsArrayPositive(ext) ==
    (IF Truthy(ext.cA) THEN << New("DERBoolean", Undefined) >> ELSE <<>>)
      \o (IF ext.pathLen.n > 0 THEN << New("DERInteger", [int |-> ext.pathLen.n]) >> ELSE <<>>)

\* BasicConstraints.getExtnValueHex: the objects of the value SEQUENCE
basicConstraintsArray(ext) ==
    (IF Truthy(ext.cA) THEN << New("DERBoolean", Undefined) >> ELSE <<>>)
      \o (IF ext.pathLen.n > -1 THEN << New("DERInteger", [int |-> ext.pathLen.n]) >> ELSE <<>>)

(***************************************************************************)
(* The fields of the certificate structures.                               *)
(***************************************************************************)
\* AlgorithmIdentifier.constructor({name})
AlgorithmIdentifier(name) == [asn1 |-> "AlgorithmIdentifier", nameAlg |-> name]

\* TBSCertificate.constructor
TBSCertificate ==
    [asn1 |-> "TBSCertificate",
     asn1Version |-> New("DERTaggedObject", [obj |-> New("DERInteger", [int |-> 2])]),
     asn1SerialNumber |-> Null, asn1SignatureAlg |-> Null, asn1Issuer |-> Null,
     asn1NotBefore |-> Null, asn1NotAfter |-> Null, asn1Subject |-> Null,
     asn1SubjPKey |-> Null, extensionsArray |-> <<>>,
     hTLV |-> ASN1Object.hTLV, isModified |-> ASN1Object.isModified]

\* a field list that carries the version only along with extensions
tbsArrayVersionWhenNeeded(t) ==
    (IF Len(t.extensionsArray) > 0 THEN << t.asn1Version >> ELSE <<>>)
      \o << t.asn1SerialNumber, t.asn1SignatureAlg, t.asn1Issuer,
            New("DERSequence", [array |-> << t.asn1NotBefore, t.asn1NotAfter >>]), t.asn1Subject,
            t.asn1SubjPKey >>
      \o (IF Len(t.extensionsArray) > 0
          THEN << New("DERTaggedObject",
                      [explicit |-> TRUE, tag |-> "a3",
                       obj |-> New("DERSequence", [array |-> t.extensionsArray])]) >>
          ELSE <<>>)

\* TBSCertificate.getEncodedHex: the field list handed to the DERSequence
tbsArray(t) ==
    << t.asn1Version, t.asn1SerialNumber, t.asn1SignatureAlg, t.asn1Issuer,
       New("DERSequence", [array |-> << t.asn1NotBefore, t.asn1NotAfter >>]), t.asn1Subject,
       t.asn1SubjPKey >>
      \o (IF Len(t.extensionsArray) > 0
          THEN << New("DERTaggedObject",
                      [explicit |-> TRUE, tag |-> "a3",
                       obj |-> New("DERSequence", [array |-> t.extensionsArray])]) >>
          ELSE <<>>)

\* TBSCertList.constructor
TBSCertList ==
    [asn1 |-> "TBSCertList", asn1Version |-> Null, asn1SignatureAlg |-> Null,
     asn1Issuer |-> Null, asn1ThisUpdate |-> Null, asn1NextUpdate |-> Null,
     aRevokedCert |-> <<>>,
     hTLV |-> ASN1Object.hTLV, isModified |-> ASN1Object.isModified]

\* TBSCertList.getEncodedHex: the field list handed to the DERSequence
tbsCertListArray(t) ==
    (IF t.asn1Version # Null THEN << t.asn1Version >> ELSE <<>>)
      \o << t.asn1SignatureAlg, t.asn1Issuer, t.asn1ThisUpdate >>
      \o (IF t.asn1NextUpdate # Null THEN << t.asn1NextUpdate >> ELSE <<>>)
      \o (IF Len(t.aRevokedCert) > 0
          THEN << New("DERSequence", [array |-> t.aRevokedCert]) >> ELSE <<>>)

(***************************************************************************)
(* getEncodedHex() of an object: Ret(its encoding), or what it raises.     *)
(* Calling it on null is a TypeError.  A SEQUENCE encodes its elements in  *)
(* order and raises what the first failing element raises.                 *)
(***************************************************************************)
RECURSIVE getEncodedHex(_)
derSequenceHex(array) ==
    LET r == [i \in 1..Len(array) |-> getEncodedHex(array[i])]
        bad == { i \in 1..Len(array) : r[i].out = "throw" }
    IN  IF bad = {}
        THEN Ret([tag |-> "30", seq |-> [i \in 1..Len(array) |-> r[i].val]])
        ELSE r[CHOOSE i \in bad : \A j \in bad : i <= j]

\* X500Extension.getExtnValueHex, as each extension overrides it
getExtnValueHex(ext) ==
    CASE ext.ext = "BasicConstraints" ->
            derSequenceHex(basicConstraintsArray(ext))
      [] ext.ext = "KeyUsage" -> getEncodedHex(ext.asn1ExtnValue)
      [] OTHER -> Ret([tag |-> "30", ext |-> ext.ext, params |-> ext.params])

\* X500Extension.getEncodedHex
x500ExtensionHex(ext) ==
    LET value == getExtnValueHex(ext)
    IN  IF value.out = "throw" THEN value
        ELSE derSequenceHex(<< New("DERObjectIdentifier", [oid |-> ext.oid]) >>
                \o (IF ext.critical THEN << New("DERBoolean", Undefined) >> ELSE <<>>)
                \o << New("DEROctetString", [hex |-> value.val]) >>)

\* an encoder that leaves out the fields that are not set
tbsCertificateHexLenient(t) ==
    IF t.asn1NotBefore = Null \/ t.asn1NotAfter = Null
    THEN Raise("notBefore and/or notAfter not set")
    ELSE derSequenceHex(SelectSeq(tbsArray(t), LAMBDA o : o # Null))

\* TBSCertificate.getEncodedHex
tbsCertificateHex(t) ==
    IF t.asn1NotBefore = Null \/ t.asn1NotAfter = Null
    THEN Raise("notBefore and/or notAfter not set")
    ELSE derSequenceHex(tbsArray(t))

getEncodedHex(o) ==
    IF o = Null THEN Raise("TypeError")
    ELSE CASE o.asn1 = "DERBoolean" -> Ret([tag |-> "01", bool |-> TRUE])
           [] o.asn1 = "DERInteger" -> Ret([tag |-> "02", int |-> o.params.int])
           [] o.asn1 = "DERBitString" ->
                IF "bin" \in DOMAIN o.params
                THEN Ret([tag |-> "03", bits |-> TrimZeros(o.params.bin.s)])
                ELSE Ret([tag |-> "03", hex |-> o.params.hex])
           [] o.asn1 = "DEROctetString" -> Ret([tag |-> "04", hex |-> o.params.hex])
           [] o.asn1 = "DERObjectIdentifier" -> Ret([tag |-> "06", oid |-> o.params.oid])
           [] o.asn1 = "DERSequence" -> derSequenceHex(o.params.array)
           [] o.asn1 = "DERTaggedObject" ->
                LET r == getEncodedHex(o.params.obj)
                IN  IF r.out = "throw" THEN r
                    ELSE Ret([tag |-> IF "tag" \in DOMAIN o.params
                                      THEN o.params.tag ELSE "a0",
                              explicit |-> TRUE, seq |-> << r.val >>])
           [] o.asn1 = "AlgorithmIdentifier" -> Ret([tag |-> "30", alg |-> o.nameAlg])
           [] o.asn1 = "X500Extension" -> x500ExtensionHex(o)
           [] o.asn1 = "TBSCertificate" -> tbsCertificateHex(o)
           [] o.asn1 = "TBSCertList" -> derSequenceHex(tbsCertListArray(o))
           [] OTHER -> Ret([tag |-> "30", of |-> o.asn1, params |-> o.params])

\* the object after its own getEncodedHex(): the encoding is kept
Encoded(o, r) ==
    IF r.out = "throw" THEN o
    ELSE [o EXCEPT !.hTLV = r.val, !.isModified = FALSE]


(***************************************************************************)
(* X500Extension.appendByNameToArray(name, extParams, a): the outcome and  *)
(* the array afterwards.  The declaration of lowname, as the file has it,  *)
(* ends in a comma with no declarator after it; an engine that holds to    *)
(* the grammar refuses the function (a SyntaxError, nothing appended),     *)
(* and a reader that ends the statement at the line break runs the chain   *)
(* of comparisons.  accepted says which of the two happens.                *)
(***************************************************************************)

appendByNameToArray(name, extParams, a, accepted) ==
    LET lowname == toLowerCase(name)
    IN  IF ~accepted THEN [res |-> Raise("SyntaxError"), a |-> a] ELSE
        IF lowname = Str(<<"b", "a", "s", "i", "c", "c", "o", "n", "s", "t", "r", "a", "i", "n", "t", "s">>)
        THEN [res |-> Ret(Undefined), a |-> Append(a, BasicConstraints(extParams))]
        ELSE IF lowname = Str(<<"k", "e", "y", "u", "s", "a", "g", "e">>)
        THEN [res |-> Ret(Undefined), a |-> Append(a, KeyUsage(extParams))]
        ELSE IF lowname = Str(<<"c", "r", "l", "d", "i", "s", "t", "r", "i", "b", "u", "t", "i", "o", "n", "p", "o", "i", "n", "t", "s">>)
        THEN [res |-> Ret(Undefined), a |-> Append(a, OtherExtension("CRLDistributionPoints", "2.5.29.31", extParams))]
        ELSE IF lowname = Str(<<"e", "x", "t", "k", "e", "y", "u", "s", "a", "g", "e">>)
        THEN [res |-> Ret(Undefined), a |-> Append(a, OtherExtension("ExtKeyUsage", "2.5.29.37", extParams))]
        ELSE IF lowname = Str(<<"a", "u", "t", "h", "o", "r", "i", "t", "y", "k", "e", "y", "i", "d", "e", "n", "t", "i", "f", "i", "e", "r">>)
        THEN [res |-> Ret(Undefined), a |-> Append(a, OtherExtension("AuthorityKeyIdentifier", "2.5.29.35", extParams))]
        ELSE IF lowname = Str(<<"a", "u", "t", "h", "o", "r", "i", "t", "y", "i", "n", "f", "o", "a", "c", "c", "e", "s", "s">>)
        THEN [res |-> Ret(Undefined), a |-> Append(a, OtherExtension("AuthorityInfoAccess", "1.3.6.1.5.5.7.1.1", extParams))]
        ELSE IF lowname = Str(<<"s", "u", "b", "j", "e", "c", "t", "a", "l", "t", "n", "a", "m", "e">>)
        THEN [res |-> Ret(Undefined), a |-> Append(a, OtherExtension("SubjectAltName", "2.5.29.17", extParams))]
        ELSE IF lowname = Str(<<"i", "s", "s", "u", "e", "r", "a", "l", "t", "n", "a", "m", "e">>)
        THEN [res |-> Ret(Undefined), a |-> Append(a, OtherExtension("IssuerAltName", "2.5.29.18", extParams))]
        ELSE [res |-> Raise("unsupported extension name: "), a |-> a]

(***************************************************************************)
(* Certificate and CRL.  Each operation yields its outcome and the object  *)
(* afterwards; the TBS object is a field of the signed object, and its own *)
(* getEncodedHex() leaves its encoding in it.                              *)
(***************************************************************************)
SHA1withRSA == Str(<<"S", "H", "A", "1", "w", "i", "t", "h", "R", "S", "A">>)

\* Certificate.constructor({tbscertobj, prvkeyobj})
Certificate(tbscertobj, prvkeyobj) ==
    [asn1 |-> "Certificate", asn1TBSCert |-> tbscertobj,
     asn1SignatureAlg |-> Null, asn1Sig |-> Null, hexSig |-> Null,
     prvKey |-> prvkeyobj,
     hTLV |-> ASN1Object.hTLV, isModified |-> ASN1Object.isModified]

\* CRL.constructor({tbsobj, prvkeyobj})
CRL(tbsobj, prvkeyobj) ==
    [asn1 |-> "CRL", asn1TBSCertList |-> tbsobj,
     asn1SignatureAlg |-> Null, asn1Sig |-> Null, hexSig |-> Null,
     prvKey |-> prvkeyobj,
     hTLV |-> ASN1Object.hTLV, isModified |-> ASN1Object.isModified]

\* new Signature({alg}) and init(key) go through
SignatureReady(sigAlg, key) == SignatureSign(sigAlg, key, Undefined).ok

\* Certificate.sign / setSignatureHex: the outer SEQUENCE, kept as hTLV
certificateAssemble(c) ==
    LET t == c.asn1TBSCert
        r == derSequenceHex(<< t, c.asn1SignatureAlg, c.asn1Sig >>)
        c1 == [c EXCEPT !.asn1TBSCert = Encoded(t, tbsCertificateHex(t))]
    IN  [res |-> IF r.out = "throw" THEN r ELSE Ret(Undefined),
         obj |-> Encoded(c1, r)]

\* Certificate.sign
certificateSign(c) ==
    LET t == c.asn1TBSCert
        c1 == [c EXCEPT !.asn1SignatureAlg = t.asn1SignatureAlg]
    IN  IF c1.asn1SignatureAlg = Null
        THEN [res |-> Raise("TypeError"), obj |-> c1]
        ELSE IF ~SignatureReady(c1.asn1SignatureAlg.nameAlg, c1.prvKey)
        THEN [res |-> Raise("Signature"), obj |-> c1]
        ELSE LET m == tbsCertificateHex(t)
                 c2 == [c1 EXCEPT !.asn1TBSCert = Encoded(t, m)]
                 hexSig == SignatureSign(c1.asn1SignatureAlg.nameAlg, c1.prvKey, m.val).val
             IN  IF m.out = "throw" THEN [res |-> m, obj |-> c2]
                 ELSE certificateAssemble(
                        [c2 EXCEPT !.hexSig = hexSig,
                                   !.asn1Sig = New("DERBitString", [hex |-> << "00", hexSig >>])])

\* Certificate.setSignatureHex
certificateSetSignatureHex(c, sigHex) ==
    certificateAssemble(
        [c EXCEPT !.asn1SignatureAlg = c.asn1TBSCert.asn1SignatureAlg,
                  !.hexSig = sigHex,
                  !.asn1Sig = New("DERBitString", [hex |-> << "00", sigHex >>])])

\* a getEncodedHex that hands out hTLV without looking at it
signedHexUnchecked(c) == Ret(c.hTLV)

\* Certificate.getEncodedHex / CRL.getEncodedHex
signedHex(c) ==
    IF c.isModified = FALSE /\ c.hTLV # Null
    THEN Ret(c.hTLV)
    ELSE Raise("not signed yet")

\* CRL.sign.  The signature object is assigned to a name the method does
\* not declare: where no binding of that name exists the assignment is a
\* ReferenceError; sigBound says whether one exists.
crlSign(c, sigBound) ==
    LET t == c.asn1TBSCertList
        c1 == [c EXCEPT !.asn1SignatureAlg = t.asn1SignatureAlg]
    IN  IF ~sigBound THEN [res |-> Raise("ReferenceError"), obj |-> c1]
        ELSE IF ~SignatureReady(SHA1withRSA, c1.prvKey)
        THEN [res |-> Raise("Signature"), obj |-> c1]
        ELSE LET m == getEncodedHex(t)
                 c2 == [c1 EXCEPT !.asn1TBSCertList = Encoded(t, m)]
                 hexSig == SignatureSign(SHA1withRSA, c1.prvKey, m.val).val
                 c3 == [c2 EXCEPT !.hexSig = hexSig,
                                  !.asn1Sig = New("DERBitString", [hex |-> << "00", hexSig >>])]
                 r == derSequenceHex(<< c3.asn1TBSCertList, c3.asn1SignatureAlg,
                                        c3.asn1Sig >>)
             IN  IF m.out = "throw" THEN [res |-> m, obj |-> c2]
                 ELSE [res |-> IF r.out = "throw" THEN r ELSE Ret(Undefined),
                       obj |-> Encoded(c3, r)]

(***************************************************************************)
(* X500Name.onelineToLDAP and X500Name.ldapToOneline, on strings of        *)
(* characters.                                                             *)
(***************************************************************************)
\* String.prototype.split(c) for a single character c
RECURSIVE SplitOn(_, _)
SplitOn(s, c) ==
    LET hits == { i \in 1..Len(s) : s[i] = c }
    IN  IF hits = {} THEN << Str(s) >>
        ELSE LET d == CHOOSE i \in hits : \A j \in hits : i <= j
             IN  << Str(SubSeq(s, 1, d - 1)) >> \o SplitOn(SubSeq(s, d + 1, Len(s)), c)

\* Array.prototype.reverse()
Reverse(a) == [i \in 1..Len(a) |-> a[Len(a) + 1 - i]]

\* String.prototype.replace(pat, rep) for a string or a non-global regular
\* expression without metacharacters: the first occurrence only
ReplaceFirst(x, pat, rep) ==
    LET i == IndexOf(x, Str(pat))
    IN  IF i = -1 THEN x
        ELSE Str(SubSeq(x.s, 1, i) \o rep \o SubSeq(x.s, i + Len(pat) + 1, Len(x.s)))

\* String.prototype.replace(/pat/g, rep): every occurrence, left to right
RECURSIVE ReplaceAll(_, _, _)
ReplaceAll(x, pat, rep) ==
    LET i == IndexOf(x, Str(pat))
    IN  IF i = -1 THEN x
        ELSE Cat(Str(SubSeq(x.s, 1, i) \o rep),
                 ReplaceAll(Str(SubSeq(x.s, i + Len(pat) + 1, Len(x.s))), pat, rep))

\* a conversion that keeps the order of the components
onelineToLDAPKeepOrder(s) ==
    IF Substr(s, 0, 1) # Str(<< "/" >>) THEN Raise("malformed input")
    ELSE LET a == SplitOn(SubSeq(s.s, 2, Len(s.s)), "/")
             escaped == [i \in 1..Len(a) |->
                            ReplaceFirst(a[i], << "," >>, << "\\", "," >>)]
         IN  Ret(Join(escaped, Str(<< "," >>)))

onelineToLDAP(s) ==
    IF Substr(s, 0, 1) # Str(<< "/" >>) THEN Raise("malformed input")
    ELSE LET a == Reverse(SplitOn(SubSeq(s.s, 2, Len(s.s)), "/"))
             escaped == [i \in 1..Len(a) |->
                            ReplaceFirst(a[i], << "," >>, << "\\", "," >>)]
         IN  Ret(Join(escaped, Str(<< "," >>)))

\* the loop of ldapToOneline: a is what is left of the split input, a2 the
\* items joined so far
RECURSIVE ldapItems(_, _, _)
ldapItems(a, a2, isBSbefore) ==
    IF a = <<>> THEN a2
    ELSE LET item == Head(a)
             joined ==
                IF isBSbefore
                THEN Append(SubSeq(a2, 1, Len(a2) - 1),
                            ReplaceAll(Cat(Cat(a2[Len(a2)], Str(<< "," >>)), item),
                                       << "\\", "," >>, << "," >>))
                ELSE Append(a2, item)
         IN  ldapItems(Tail(a), joined,
                       item.s # <<>> /\ item.s[Len(item.s)] = "\\")

ldapToOneline(s) ==
    LET a2 == ldapItems(SplitOn(s.s, ","), <<>>, FALSE)
        escaped == [i \in 1..Len(a2) |->
                        ReplaceFirst(a2[i], << "/" >>, << "\\", "/" >>)]
    IN  Cat(Str(<< "/" >>), Join(Reverse(escaped), Str(<< "/" >>)))

(***************************************************************************)
(* JWS.parseJWS(sJWS, sigValNotNeeded) on a JWS object (jws-3.3.js).       *)
(*                                                                         *)
(* The object is its parsedJWS field: undefined after construction, then a *)
(* dictionary whose absent keys read undefined.  parseBigInt is outside    *)
(* this layer; the number it returns is named after the hex string read.   *)
(***************************************************************************)
JWS == [parsedJWS |-> Undefined]

NoParsedJWS ==
    [headB64U |-> Undefined, payloadB64U |-> Undefined, sigvalB64U |-> Undefined,
     si |-> Undefined, sigvalH |-> Undefined, sigvalBI |-> Undefined,
     headS |-> Undefined, payloadS |-> Undefined, headP |-> Undefined]

parseJWS(this, sJWS, sigValNotNeeded) ==
    IF /\ this.parsedJWS # Undefined
       /\ (Truthy(sigValNotNeeded) \/ this.parsedJWS.sigvalH # Undefined)
    THEN [this |-> this, res |-> Ret(Undefined)]
    ELSE LET a == Split(sJWS)
         IN  IF ~(Len(a) = 3 /\ \A i \in 1..3 : a[i] # <<>>)
             THEN [this |-> this,
                   res |-> Raise("JWS signature is not a form of 'Head.Payload.SigValue'.")]
             ELSE LET sHead == b64utoutf8(a[1])
                      p1 == [NoParsedJWS EXCEPT
                               !.headB64U = a[1], !.payloadB64U = a[2],
                               !.sigvalB64U = a[3], !.si = a[1] \o << Dot >> \o a[2]]
                      p2 == IF ~Truthy(sigValNotNeeded)
                            THEN [p1 EXCEPT !.sigvalH = b64utohex(a[3]),
                                            !.sigvalBI = [parseBigInt |-> b64utohex(a[3])]]
                            ELSE p1
                      p3 == [p2 EXCEPT !.headS = sHead, !.payloadS = b64utoutf8(a[2])]
                  IN  IF isSafeJSONString(sHead) = 0
                      THEN [this |-> [parsedJWS |-> p3],
                            res |-> Raise("malformed JSON string for JWS Head: ")]
                      ELSE [this |-> [parsedJWS |-> [p3 EXCEPT !.headP = JSONparse(sHead).val]],
                            res |-> Ret(Undefined)]

(***************************************************************************)
(* RDN.parseString(s), on strings of characters.                           *)
(***************************************************************************)
\* the first loop of parseString ("join \+"): a is what is left of the
\* split input, a2 the items joined so far
RECURSIVE rdnItems(_, _, _)
rdnItems(a, a2, isBSbefore) ==
    IF a = <<>> THEN a2
    ELSE LET item == Head(a)
             joined ==
                IF isBSbefore
                THEN Append(SubSeq(a2, 1, Len(a2) - 1),
                            ReplaceAll(Cat(Cat(a2[Len(a2)], Str(<< "+" >>)), item),
                                       << "\\", "+" >>, << "+" >>))
                ELSE Append(a2, item)
         IN  rdnItems(Tail(a), joined,
                      item.s # <<>> /\ item.s[Len(item.s)] = "\\")

\* the prefix ^[^=]+= of the regular expressions on 'type=value' strings:
\* the position of the '=' that ends the match in x, or 0 when x has none
MatchType(x) ==
    IF x # <<>> /\ x[1] # "=" /\ \E k \in 2..Len(x) : x[k] = "="
    THEN CHOOSE k \in 2..Len(x) : x[k] = "=" /\ \A j \in 1..(k - 1) : x[j] # "="
    ELSE 0

\* the second loop of parseString ("join quote"): a2 is what is left, a3
\* the items joined so far
RECURSIVE rdnQuoted(_, _, _)
rdnQuoted(a2, a3, beginQuote) ==
    IF a2 = <<>> THEN a3
    ELSE LET item == Head(a2)
             Eq(x) == MatchType(x)
             \* x.match(/^[^=]+="/)
             OpensQuote(x) == Eq(x) # 0 /\ Len(x) > Eq(x) /\ x[Eq(x) + 1] = "\""
             \* x.match(/"$/)
             ClosesQuote(x) == x # <<>> /\ x[Len(x)] = "\""
             \* x.replace(/^([^=]+)="(.*)"$/, "$1=$2")
             Unquote(x) ==
                IF OpensQuote(x) /\ ClosesQuote(x) /\ Len(x) >= Eq(x) + 2
                THEN SubSeq(x, 1, Eq(x)) \o SubSeq(x, Eq(x) + 2, Len(x) - 1)
                ELSE x
             a3last == a3[Len(a3)]
             joined ==
                IF beginQuote
                THEN IF ClosesQuote(item.s)
                     THEN Append(SubSeq(a3, 1, Len(a3) - 1),
                                 Str(Unquote(a3last.s \o << "+" >> \o item.s)))
                     ELSE Append(SubSeq(a3, 1, Len(a3) - 1),
                                 Str(a3last.s \o << "+" >> \o item.s))
                ELSE Append(a3, item)
         IN  rdnQuoted(Tail(a2), joined,
                       IF beginQuote /\ ClosesQuote(item.s) THEN OpensQuote(item.s)
                       ELSE beginQuote \/ OpensQuote(item.s))

parseString(s) ==
    rdnQuoted(rdnItems(SplitOn(s.s, "+"), <<>>, FALSE), <<>>, FALSE)

(***************************************************************************)
(* AttributeTypeAndValue, RDN and X500Name built from strings.             *)
(*                                                                         *)
(* setByAttrTypeAndValueStr reads the identifier defaultDSType, which the  *)
(* file never declares: dsBound says whether the environment binds it (to  *)
(* "utf8", the value the constructor stores in this.defaultDSType); when   *)
(* it does not, the read is a ReferenceError.  atype2obj and the DER       *)
(* string classes are outside this layer.                                  *)
(***************************************************************************)
\* new AttributeTypeAndValue({str: s})
AttributeTypeAndValue(s, dsBound) ==
    LET k == MatchType(s.s)
    IN  IF k = 0 \/ Len(s.s) <= k
        THEN Raise("malformed attrTypeAndValueStr: ")
        ELSE IF ~dsBound THEN Raise("ReferenceError")
        ELSE LET type  == Str(SubSeq(s.s, 1, k - 1))
                 value == Str(SubSeq(s.s, k + 1, Len(s.s)))
             IN  Ret([asn1 |-> "AttributeTypeAndValue",
                      typeObj |-> New("DERObjectIdentifier", [atype |-> type]),
                      valueObj |-> New(IF type = Str(<< "C" >>)
                                       THEN "DERPrintableString" ELSE "DERUTF8String",
                                       [str |-> value])])

\* new RDN({str: s}): one AttributeTypeAndValue per item of parseString(s),
\* up to the first one that raises
RDN(s, dsBound) ==
    LET Built(atv) ==
            LET bad == { i \in 1..Len(atv) : atv[i].out = "throw" }
            IN  IF bad # {} THEN atv[CHOOSE i \in bad : \A j \in bad : i <= j]
                ELSE Ret([asn1 |-> "RDN",
                          asn1Array |-> [i \in 1..Len(atv) |-> atv[i].val]])
        Each(a) == [i \in 1..Len(a) |-> AttributeTypeAndValue(a[i], dsBound)]
    IN  Built(Each(parseString(s)))

\* the first loop of X500Name.setByString: a is what is left of the split
\* input, a1 the RDN strings so far.  With a1 empty, lastidx is -1 and the
\* assignment a1[-1] = ... adds no element.
RECURSIVE rdnStrings(_, _)
rdnStrings(a, a1) ==
    IF a = <<>> THEN a1
    ELSE LET item == Head(a)
             k == MatchType(item.s)
         IN  rdnStrings(Tail(a),
                IF k # 0 /\ Len(item.s) > k THEN Append(a1, item)
                ELSE IF a1 = <<>> THEN a1
                ELSE [a1 EXCEPT ![Len(a1)] = Cat(Cat(@, Str(<< "/" >>)), item)])

\* X500Name.setByString(dnStr) on the X500Name this: the RDNs are pushed
\* one by one, up to the first one that raises
setByString(this, dnStr, dsBound) ==
    LET Pushed(a1, rdn) ==
            LET bad == { i \in 1..Len(a1) : rdn[i].out = "throw" }
                n   == IF bad = {} THEN Len(a1)
                       ELSE (CHOOSE i \in bad : \A j \in bad : i <= j) - 1
            IN  [this |-> [this EXCEPT !.asn1Array = @ \o [i \in 1..n |-> rdn[i].val]],
                 a1   |-> a1,
                 res  |-> IF bad = {} THEN Ret(Undefined) ELSE Raise(rdn[n + 1].err)]
        Each(a1) == Pushed(a1, [i \in 1..Len(a1) |-> RDN(a1[i], dsBound)])
    IN  Each(rdnStrings(Tail(SplitOn(dnStr.s, "/")), <<>>))

\* new X500Name({str: ...}) and new X500Name({ldapstr: ...})
X500Name(key, str, dsBound) ==
    LET Built(r) == IF r.res.out = "throw" THEN r.res ELSE Ret(r.this)
        DN(s) == setByString([asn1 |-> "X500Name", asn1Array |-> <<>>, hTLV |-> Null],
                             s, dsBound)
    IN  Built(DN(IF key = "ldapstr" THEN ldapToOneline(str) ELSE str))

(***************************************************************************)
(* GeneralName.                                                            *)
(*                                                                         *)
(* params is a dictionary over the eight documented keys, undefined where  *)
(* a key is absent.  this.type is "null" until a key sets it.  A           *)
(* certificate string is a PEM text or a hex text of a certificate id; an  *)
(* IP string is named after the form it has.  pemtohex, X509 and the IP    *)
(* converters are outside this layer.  setByParam reads the identifier     *)
(* pTag, which the file never declares (the table is this.pTag): pTagBound *)
(* says whether the environment binds it to that table; when it does not,  *)
(* the read is a ReferenceError.                                           *)
(***************************************************************************)
pTag == [rfc822 |-> "81", dns |-> "82", dn |-> "a4", uri |-> "86", ip |-> "87"]

\* The eight if-blocks of setByParam run in the order of keys.  Each block
\* of a key that is present sets this.type, some set this.explicit, then the
\* block computes v or raises; Effect is what one block does.
setByParam(this, params, pTagBound, dsBound) ==
    LET keys == << "rfc822", "dns", "uri", "dn", "ldapdn", "certissuer",
                   "certsubj", "ip" >>
        Named(n) == [type |-> "dn", explicit |-> "true", err |-> n.err, v |-> n.val]
        Effect(key) ==
            CASE key \in { "rfc822", "dns", "uri" } ->
                    [type |-> key, explicit |-> "unchanged", err |-> "",
                     v |-> New("DERIA5String", [str |-> params[key]])]
              [] key \in { "dn", "ldapdn" } ->
                    Named(X500Name(IF key = "dn" THEN "str" ELSE "ldapstr",
                                   params[key], dsBound))
              [] key \in { "certissuer", "certsubj" } ->
                    \* certHex == certStr compares and assigns nothing: only
                    \* a string that holds "-----BEGIN " gives a certHex
                    LET certStr == params[key]
                        certHex == IF "pem" \in DOMAIN certStr
                                   THEN [hexcert |-> certStr.pem] ELSE Null
                    IN  IF certHex = Null
                        THEN [type |-> "dn", explicit |-> "true", v |-> Null,
                              err |-> IF key = "certissuer"
                                      THEN "certissuer param not cert"
                                      ELSE "certsubj param not cert"]
                        ELSE [type |-> "dn", explicit |-> "true", err |-> "",
                              v |-> [ASN1Object EXCEPT
                                       !.hTLV = [dnOf |-> certHex.hexcert,
                                                 field |-> key]]]
              [] key = "ip" ->
                    IF params.ip.ip \in { "ipv4", "ipv6", "hex" }
                    THEN [type |-> "ip", explicit |-> "false", err |-> "",
                          v |-> New("DEROctetString", [hex |-> [hexOf |-> params.ip]])]
                    ELSE [type |-> "ip", explicit |-> "false", v |-> Null,
                          err |-> "malformed IP address"]
        Min(S) == CHOOSE i \in S : \A j \in S : i <= j
        Max(S) == CHOOSE i \in S : \A j \in S : i >= j
        \* eff[i] is the effect of block i, for the blocks of the keys present
        Blocks(eff) ==
            LET present == DOMAIN eff
                bad  == { i \in present : eff[i].err # "" }
                \* the blocks that run: up to the first one that raises
                run  == IF bad = {} THEN present ELSE { i \in present : i <= Min(bad) }
                sets == { i \in run : eff[i].explicit # "unchanged" }
                after == [this EXCEPT
                            !.type = IF run = {} THEN @ ELSE eff[Max(run)].type,
                            !.explicit = IF sets = {} THEN @
                                         ELSE eff[Max(sets)].explicit = "true"]
            IN  IF bad # {} THEN [this |-> after, res |-> Raise(eff[Min(bad)].err)]
                ELSE IF after.type = "null"
                THEN [this |-> after, res |-> Raise("unsupported type in params=")]
                ELSE IF ~pTagBound
                THEN [this |-> after, res |-> Raise("ReferenceError")]
                ELSE [this |-> [after EXCEPT !.asn1Obj =
                                  New("DERTaggedObject",
                                      [explicit |-> after.explicit,
                                       tag |-> pTag[after.type],
                                       obj |-> eff[Max(run)].v])],
                      res |-> Ret(Undefined)]
    IN  Blocks([i \in { k \in 1..8 : params[keys[k]] # Undefined } |-> Effect(keys[i])])

\* new GeneralName(params)
GeneralName(params, pTagBound, dsBound) ==
    LET new == [asn1 |-> "GeneralName", asn1Obj |-> Null, type |-> "null",
                explicit |-> FALSE]
        Built(r) == IF r.res.out = "throw" THEN r.res ELSE Ret(r.this)
    IN  IF params = Undefined THEN Ret(new)
        ELSE Built(setByParam(new, params, pTagBound, dsBound))

(***************************************************************************)
(* Inputs.                                                                 *)
(***************************************************************************)
\* a name that holds the separator of the joined accept list
ColonAlg == Cat(Cat(RS256, Colon), PS256)

HeaderAlgs == SignAlgs \cup { ES512, ColonAlg }

Keys ==
    { Null, Undefined, PEM("RSAKeyEx", 1), PEM("ECDSA", 1) }
    \cup { MacKey(i) : i \in KeyIds }
    \cup { RSAKey(i) : i \in KeyIds }
    \cup { ECKey(i) : i \in KeyIds }

Header(a) == [alg |-> a]

NoClaims ==
    [iss |-> Undefined, sub |-> Undefined, aud |-> Undefined, exp |-> Undefined,
     nbf |-> Undefined, iat |-> Undefined, jti |-> Undefined]

SignAlgArgs == { Null, Str(<<>>) } \cup SignAlgs \cup { ES512 }

SignHeaders ==
    { [ty |-> "object", val |-> Header(a)] : a \in SignAlgs \cup { ES512, Undefined } }
    \cup { [ty |-> "string", val |-> JSONstringify(Header(a))] :
             a \in SignAlgs \cup { ES512, Undefined } }
    \cup { [ty |-> "number", val |-> Num(1)],
           [ty |-> "object", val |-> Null],
           [ty |-> "string", val |-> [raw |-> "{"]],
           [ty |-> "string", val |-> JSONstringify(Arr(<<>>))] }

SignPayloads ==
    { [ty |-> "string", val |-> EmptyStr],
      [ty |-> "object", val |-> [NoClaims EXCEPT !.iss = Str(<< "a" >>), !.exp = Num(1)]] }

AcceptLists ==
    { Undefined, Null, Arr(<<>>) }
    \cup { Arr(<< a >>) : a \in SignAlgs }
    \cup { Arr(<< HS256, RS256 >>), Arr(<< RS256, PS256 >>),
           Arr(<< Cat(Cat(RS256, Colon), HS256) >>) }

ForgedHeaders ==
    { B64U(JSONstringify(Header(a))) : a \in HeaderAlgs \cup { Undefined } }
    \cup { B64U([raw |-> "{"]) }

BadSig  == B64U([raw |-> "00"])
Payload == B64U(JSONstringify(NoClaims))

\* strings of one to four segments that no sign call returned
ForgedJWS ==
    UNION { { << h >>,
              << h, Dot, Payload >>,
              << h, Dot, Payload, Dot >>,
              << h, Dot, Payload, Dot, BadSig >>,
              << h, Dot, Payload, Dot, BadSig, Dot, BadSig >> } : h \in ForgedHeaders }

NoAccept ==
    [alg |-> Undefined, iss |-> Undefined, sub |-> Undefined, aud |-> Undefined,
     jti |-> Undefined, verifyAt |-> Undefined, gracePeriod |-> Undefined]

AcceptFields ==
    { Undefined }
    \cup { [NoAccept EXCEPT !.alg = l, !.iss = i] :
             l \in { Undefined, Arr(<< HS256 >>), Arr(<< RS256, none >>) },
             i \in { Undefined, Arr(<< Str(<< "a" >>) >>), Arr(<< Str(<< "b" >>) >>) } }

\* Claims and accept fields of the JWT sessions.  exp, nbf and iat lie around
\* the wall clock (0..MaxClock) and around the verifyAt time 11.
A == Str(<< "a" >>)
B == Str(<< "b" >>)

ClaimValues ==
    [iss : { Undefined, A, B },
     sub : { Undefined, A, B },
     aud : { Undefined, A, Arr(<<>>), Arr(<< A, B >>), Arr(<< B, A >>) },
     exp : { Undefined, Num(1), Str(<< "1" >>) },
     nbf : { Undefined, Num(1), Str(<< "1" >>) },
     iat : { Undefined, Num(1), Str(<< "1" >>) },
     jti : { Undefined, A, B }]

AcceptValues ==
    [alg : { Arr(<< HS256 >>), Arr(<< RS256 >>) },
     iss : { Undefined, Arr(<< A >>), Arr(<< B, A >>) },
     sub : { Undefined, Arr(<< A >>) },
     aud : { Undefined, Arr(<< B >>), Arr(<< A, B >>) },
     jti : { Undefined, A },
     verifyAt : { Undefined, Num(11), Str(<< "1", "1" >>) },
     gracePeriod : { Undefined, Num(20), Str(<< "2", "0" >>) }]

\* the number of members of a dictionary that are present
Present(o, names) == Cardinality({ f \in names : o[f] # Undefined })
ClaimNames  == { "iss", "sub", "aud", "exp", "nbf", "iat", "jti" }
AcceptNames == { "iss", "sub", "aud", "jti", "verifyAt", "gracePeriod" }

\* a payload with an nbf or iat that is not a number has no aud, sub or jti
JWTClaims ==
    { p \in ClaimValues :
        /\ Present(p, ClaimNames) <= MaxClaims
        /\ \/ p.nbf.t # "str" /\ p.iat.t # "str"
           \/ p.aud = Undefined /\ p.sub = Undefined /\ p.jti = Undefined }

JWTPayloads == { [ty |-> "object", val |-> p] : p \in JWTClaims }

ForgedJWT ==
    LET claims == B64U(JSONstringify([NoClaims EXCEPT !.iss = B, !.exp = Num(1)]))
    IN  { << h, Dot, claims, Dot, BadSig >> :
            h \in { B64U(JSONstringify(Header(a))) : a \in { Undefined, HS256 } } }
        \cup { << B64U(JSONstringify(Header(HS256))), Dot, B64U([raw |-> "{"]),
                  Dot, BadSig >>,
               << B64U(JSONstringify(Header(HS256))), Dot, claims, Dot, BadSig,
                  Dot, BadSig >> }

\* the accept fields offered for the string in flight
JWTAcceptFields ==
    LET a == Split(jws)
        p == IF Len(a) < 2 THEN Null ELSE readSafeJSONString(b64utoutf8(a[2]))
        n == IF p = Null THEN 0 ELSE Present(p, ClaimNames)
    IN  { af \in AcceptValues : Present(af, AcceptNames) + n <= MaxClaims }

(***************************************************************************)
(* The state machine: a caller signs, or is handed a forged string, and    *)
(* verifies the string in flight.  The functions keep no state between     *)
(* calls, so one behaviour is one session: one string produced, then one   *)
(* verification of it.                                                     *)
(***************************************************************************)
InitJWS ==
    /\ jws = NoJWS
    /\ origin = NoCall
    /\ call = NoCall
    /\ clock = 0
    /\ jwsObj = JWS

InitX509 ==
    /\ cert = Certificate(TBSCertificate, RSAKey(1))
    /\ crl = CRL(TBSCertList, RSAKey(1))
    /\ ret = NoRet
    /\ history = NoHistory

Init == InitJWS /\ InitX509

Sign(algs, headers, payloads, keys) ==
    /\ call = NoCall
    /\ \E alg \in algs, spHeader \in headers, spPayload \in payloads, key \in keys :
        LET res == sign(alg, spHeader, spPayload, key)
        IN  /\ jws' = res.val
            /\ origin' = IF res.out = "return"
                         THEN [op |-> "sign", alg |-> res.alg, key |-> key]
                         ELSE NoCall
            /\ call' = [op |-> "sign", alg |-> alg, spHeader |-> spHeader,
                        spPayload |-> spPayload, key |-> key, res |-> res]
            /\ UNCHANGED <<clock, cert, crl, ret, history, jwsObj>>

Forge(strings) ==
    /\ call = NoCall
    /\ \E s \in strings :
        /\ jws' = s
        /\ origin' = NoCall
        /\ call' = [op |-> "forge"]
        /\ UNCHANGED <<clock, cert, crl, ret, history, jwsObj>>

Verify(keys, lists) ==
    /\ call.op \in { "sign", "forge" }
    /\ jws # NoJWS
    /\ \E key \in keys, acceptAlgs \in lists :
        /\ call' = [op |-> "verify", key |-> key, acceptAlgs |-> acceptAlgs,
                    res |-> verify(jws, key, acceptAlgs)]
        /\ UNCHANGED <<jws, origin, clock, cert, crl, ret, history, jwsObj>>

VerifyJWT(keys, fields) ==
    /\ call.op \in { "sign", "forge" }
    /\ jws # NoJWS
    /\ \E key \in keys, acceptField \in fields :
        /\ call' = [op |-> "verifyJWT", key |-> key, acceptField |-> acceptField,
                    now |-> getNow,
                    res |-> verifyJWT(jws, key, acceptField, getNow)]
        /\ UNCHANGED <<jws, origin, clock, cert, crl, ret, history, jwsObj>>

Tick ==
    /\ call = NoCall
    /\ clock < MaxClock
    /\ clock' = clock + 1
    /\ UNCHANGED <<jws, origin, call, cert, crl, ret, history, jwsObj>>

Next ==
    \/ Sign(SignAlgArgs, SignHeaders, SignPayloads, Keys)
    \/ Forge(ForgedJWS)
    \/ Verify(Keys, AcceptLists)
    \/ VerifyJWT(Keys, AcceptFields)

Spec == Init /\ [][Next]_vars

\* JWT sessions: time passes, a JWT is issued with an HS256 MAC under the
\* first shared secret, or forged with a bad MAC, and validated with that
\* secret.
NextJWT ==
    \/ Tick
    \/ Sign({ HS256 }, { [ty |-> "object", val |-> Header(Undefined)] },
            JWTPayloads, { MacKey(1) })
    \/ Forge(ForgedJWT)
    \/ VerifyJWT({ MacKey(1) }, JWTAcceptFields)

SpecJWT == Init /\ [][NextJWT]_vars

(***************************************************************************)
(* Inputs of the X.509 operations.                                         *)
(***************************************************************************)
CertAlgNames == { Cat(SHA256, withRSA), SHA1withRSA }
Serials      == { 1 }
IssuerName   == New("X500Name", [str |-> "/C=US/O=CA"])
SubjectName  == New("X500Name", [str |-> "/C=US/CN=a"])
NotBefore    == New("Time", [str |-> "250101000000Z"])
NotAfter     == New("Time", [str |-> "350101000000Z"])
SigHexes     == { [raw |-> "1f2e"] }

CAParams       == ExtParams(Undefined, Boolean(TRUE), Undefined, Undefined, Undefined)
KeyUsageParams == ExtParams(Boolean(TRUE), Undefined, Undefined, Undefined,
                            Arr(<< "digitalSignature" >>))
Extensions     == { KeyUsage(KeyUsageParams) }

\* the eight supported names: as documented, in lower and in upper case
NamesOf ==
    [BasicConstraints |->
        { Str(<<"B", "a", "s", "i", "c", "C", "o", "n", "s", "t", "r", "a", "i", "n", "t", "s">>),
          Str(<<"b", "a", "s", "i", "c", "c", "o", "n", "s", "t", "r", "a", "i", "n", "t", "s">>),
          Str(<<"B", "A", "S", "I", "C", "C", "O", "N", "S", "T", "R", "A", "I", "N", "T", "S">>) },
     KeyUsage |->
        { Str(<<"K", "e", "y", "U", "s", "a", "g", "e">>),
          Str(<<"k", "e", "y", "u", "s", "a", "g", "e">>),
          Str(<<"K", "E", "Y", "U", "S", "A", "G", "E">>) },
     CRLDistributionPoints |->
        { Str(<<"C", "R", "L", "D", "i", "s", "t", "r", "i", "b", "u", "t", "i", "o", "n", "P", "o", "i", "n", "t", "s">>),
          Str(<<"c", "r", "l", "d", "i", "s", "t", "r", "i", "b", "u", "t", "i", "o", "n", "p", "o", "i", "n", "t", "s">>),
          Str(<<"C", "R", "L", "D", "I", "S", "T", "R", "I", "B", "U", "T", "I", "O", "N", "P", "O", "I", "N", "T", "S">>) },
     ExtKeyUsage |->
        { Str(<<"E", "x", "t", "K", "e", "y", "U", "s", "a", "g", "e">>),
          Str(<<"e", "x", "t", "k", "e", "y", "u", "s", "a", "g", "e">>),
          Str(<<"E", "X", "T", "K", "E", "Y", "U", "S", "A", "G", "E">>) },
     AuthorityKeyIdentifier |->
        { Str(<<"A", "u", "t", "h", "o", "r", "i", "t", "y", "K", "e", "y", "I", "d", "e", "n", "t", "i", "f", "i", "e", "r">>),
          Str(<<"a", "u", "t", "h", "o", "r", "i", "t", "y", "k", "e", "y", "i", "d", "e", "n", "t", "i", "f", "i", "e", "r">>),
          Str(<<"A", "U", "T", "H", "O", "R", "I", "T", "Y", "K", "E", "Y", "I", "D", "E", "N", "T", "I", "F", "I", "E", "R">>) },
     AuthorityInfoAccess |->
        { Str(<<"A", "u", "t", "h", "o", "r", "i", "t", "y", "I", "n", "f", "o", "A", "c", "c", "e", "s", "s">>),
          Str(<<"a", "u", "t", "h", "o", "r", "i", "t", "y", "i", "n", "f", "o", "a", "c", "c", "e", "s", "s">>),
          Str(<<"A", "U", "T", "H", "O", "R", "I", "T", "Y", "I", "N", "F", "O", "A", "C", "C", "E", "S", "S">>) },
     SubjectAltName |->
        { Str(<<"S", "u", "b", "j", "e", "c", "t", "A", "l", "t", "N", "a", "m", "e">>),
          Str(<<"s", "u", "b", "j", "e", "c", "t", "a", "l", "t", "n", "a", "m", "e">>),
          Str(<<"S", "U", "B", "J", "E", "C", "T", "A", "L", "T", "N", "A", "M", "E">>) },
     IssuerAltName |->
        { Str(<<"I", "s", "s", "u", "e", "r", "A", "l", "t", "N", "a", "m", "e">>),
          Str(<<"i", "s", "s", "u", "e", "r", "a", "l", "t", "n", "a", "m", "e">>),
          Str(<<"I", "S", "S", "U", "E", "R", "A", "L", "T", "N", "A", "M", "E">>) }]
SupportedNames == UNION { NamesOf[k] : k \in DOMAIN NamesOf }
UnsupportedNames ==
    { Str(<<"c", "e", "r", "t", "i", "f", "i", "c", "a", "t", "e", "P", "o", "l", "i", "c", "i", "e", "s">>),
      Str(<<"k", "e", "y", "u", "s", "a", "g">>),
      Str(<<"k", "e", "y", " ", "u", "s", "a", "g", "e">>),
      Str(<<>>) }
CertExtensionNames ==
    { Str(<<"B", "a", "s", "i", "c", "C", "o", "n", "s", "t", "r", "a", "i", "n", "t", "s">>),
      Str(<<"c", "e", "r", "t", "i", "f", "i", "c", "a", "t", "e", "P", "o", "l", "i", "c", "i", "e", "s">>) }

BasicConstraintsParams ==
    { ExtParams(critical, cA, pathLen, Undefined, Undefined) :
        critical \in { Undefined, Boolean(TRUE) },
        cA \in { Undefined, Boolean(TRUE), Boolean(FALSE) },
        pathLen \in { Undefined } \cup { Num(n) : n \in -1..MaxPathLen } }

KeyUsageNames == { "digitalSignature", "keyAgreement", "decipherOnly", "bogus" }
KeyUsageLists == UNION { [1..n -> KeyUsageNames] : n \in 0..MaxNames }
KeyUsageParamSet ==
    { ExtParams(Undefined, Undefined, Undefined, Undefined, Arr(names)) :
        names \in KeyUsageLists }
      \cup { ExtParams(Undefined, Undefined, Undefined, Str(<<"1", "1">>), Undefined),
             NoExtParams }

ExtensionArrays ==
    { <<>>, << BasicConstraints(CAParams) >>,
      << KeyUsage(KeyUsageParams), BasicConstraints(CAParams) >> }

DNChars   == { "/", ",", "\\", "+", "a", "=" }
DNStrings == { Str(s) : s \in UNION { [1..n -> DNChars] : n \in 0..MaxDNLen } }

(***************************************************************************)
(* The X.509 state machine: a caller fills in the TBSCertificate of a      *)
(* certificate, signs it or attaches a signature, and asks for encodings,  *)
(* in any order; or does the same with a CRL.                              *)
(***************************************************************************)
\* the fields of a TBSCertificate that go into its encoding
Fields(t) ==
    [asn1SerialNumber |-> t.asn1SerialNumber, asn1SignatureAlg |-> t.asn1SignatureAlg,
     asn1Issuer |-> t.asn1Issuer, asn1NotBefore |-> t.asn1NotBefore,
     asn1NotAfter |-> t.asn1NotAfter, asn1Subject |-> t.asn1Subject,
     asn1SubjPKey |-> t.asn1SubjPKey, extensionsArray |-> t.extensionsArray]

OnCertificate == crl = CRL(TBSCertList, RSAKey(1))
OnCRL         == cert = Certificate(TBSCertificate, RSAKey(1))

\* the setters of TBSCertificate (setSerialNumberByParam,
\* setSignatureAlgByParam, setIssuerByParam, setNotBeforeByParam,
\* setNotAfterByParam, setSubjectByParam, setSubjectPublicKey): the field
\* is replaced by a new object, nothing else changes
TBSSet(field, objects) ==
    /\ OnCertificate
    /\ \E o \in objects :
        cert' = [cert EXCEPT !.asn1TBSCert = [@ EXCEPT ![field] = o]]
    /\ ret' = [op |-> "set", res |-> Ret(Undefined)]
    /\ UNCHANGED <<jws, origin, call, clock, crl, history, jwsObj>>

\* an append that puts the extension in front
AppendExtensionFirst(exts) ==
    /\ OnCertificate
    /\ Len(cert.asn1TBSCert.extensionsArray) < MaxExt
    /\ \E extObj \in exts :
        /\ cert' = [cert EXCEPT !.asn1TBSCert.extensionsArray = << extObj >> \o @]
        /\ history' = [history EXCEPT !.appended = Append(@, extObj)]
    /\ ret' = [op |-> "set", res |-> Ret(Undefined)]
    /\ UNCHANGED <<jws, origin, call, clock, crl, jwsObj>>

AppendExtension(exts) ==
    /\ OnCertificate
    /\ Len(cert.asn1TBSCert.extensionsArray) < MaxExt
    /\ \E extObj \in exts :
        /\ cert' = [cert EXCEPT !.asn1TBSCert.extensionsArray = Append(@, extObj)]
        /\ history' = [history EXCEPT !.appended = Append(@, extObj)]
    /\ ret' = [op |-> "set", res |-> Ret(Undefined)]
    /\ UNCHANGED <<jws, origin, call, clock, crl, jwsObj>>

AppendExtensionByName(names) ==
    /\ OnCertificate
    /\ Len(cert.asn1TBSCert.extensionsArray) < MaxExt
    /\ \E name \in names, accepted \in BOOLEAN :
        LET r == appendByNameToArray(name, NoExtParams,
                                     cert.asn1TBSCert.extensionsArray, accepted)
        IN  /\ cert' = [cert EXCEPT !.asn1TBSCert.extensionsArray = r.a]
            /\ ret' = [op |-> "appendExtensionByName", name |-> name,
                       extParams |-> NoExtParams,
                       a |-> cert.asn1TBSCert.extensionsArray,
                       accepted |-> accepted, res |-> r.res, after |-> r.a]
            /\ history' = IF r.res.out = "return"
                          THEN [history EXCEPT !.appended = Append(@, r.a[Len(r.a)])]
                          ELSE history
    /\ UNCHANGED <<jws, origin, call, clock, crl, jwsObj>>

TBSGetEncodedHex ==
    /\ OnCertificate
    /\ LET r == tbsCertificateHex(cert.asn1TBSCert)
       IN  /\ cert' = [cert EXCEPT !.asn1TBSCert = Encoded(@, r)]
           /\ ret' = [op |-> "TBSCertificate.getEncodedHex",
                      fields |-> Fields(cert.asn1TBSCert), res |-> r]
    /\ UNCHANGED <<jws, origin, call, clock, crl, history, jwsObj>>

CertSign ==
    /\ OnCertificate
    /\ LET r == certificateSign(cert)
       IN  /\ cert' = r.obj
           /\ ret' = [op |-> "Certificate.sign", res |-> r.res]
           /\ history' = IF r.res.out = "return"
                         THEN [history EXCEPT !.signedOver = Fields(cert.asn1TBSCert)]
                         ELSE history
    /\ UNCHANGED <<jws, origin, call, clock, crl, jwsObj>>

CertSetSignatureHex(hexes) ==
    /\ OnCertificate
    /\ \E sigHex \in hexes :
        LET r == certificateSetSignatureHex(cert, sigHex)
        IN  /\ cert' = r.obj
            /\ ret' = [op |-> "Certificate.setSignatureHex", res |-> r.res]
            /\ history' = IF r.res.out = "return"
                          THEN [history EXCEPT !.signedOver = Fields(cert.asn1TBSCert)]
                          ELSE history
    /\ UNCHANGED <<jws, origin, call, clock, crl, jwsObj>>

CertGetEncodedHex ==
    /\ OnCertificate
    /\ ret' = [op |-> "Certificate.getEncodedHex", res |-> signedHex(cert)]
    /\ UNCHANGED <<jws, origin, call, clock, cert, crl, history, jwsObj>>

\* the setters of TBSCertList (setSignatureAlgByParam, setIssuerByParam,
\* setThisUpdateByParam, setNextUpdateByParam)
ListSet(field, objects) ==
    /\ OnCRL
    /\ \E o \in objects :
        crl' = [crl EXCEPT !.asn1TBSCertList = [@ EXCEPT ![field] = o]]
    /\ ret' = [op |-> "set", res |-> Ret(Undefined)]
    /\ UNCHANGED <<jws, origin, call, clock, cert, history, jwsObj>>

CRLSign ==
    /\ OnCRL
    /\ \E sigBound \in BOOLEAN :
        LET r == crlSign(crl, sigBound)
        IN  /\ crl' = r.obj
            /\ ret' = [op |-> "CRL.sign", sigBound |-> sigBound, res |-> r.res]
    /\ UNCHANGED <<jws, origin, call, clock, cert, history, jwsObj>>

CRLGetEncodedHex ==
    /\ OnCRL
    /\ ret' = [op |-> "CRL.getEncodedHex", res |-> signedHex(crl)]
    /\ UNCHANGED <<jws, origin, call, clock, cert, crl, history, jwsObj>>

NextCert ==
    \/ TBSSet("asn1SerialNumber", { New("DERInteger", [int |-> n]) : n \in Serials })
    \/ TBSSet("asn1SignatureAlg", { AlgorithmIdentifier(name) : name \in CertAlgNames })
    \/ TBSSet("asn1Issuer", { IssuerName })
    \/ TBSSet("asn1NotBefore", { NotBefore })
    \/ TBSSet("asn1NotAfter", { NotAfter })
    \/ TBSSet("asn1Subject", { SubjectName })
    \/ TBSSet("asn1SubjPKey", { New("SubjectPublicKeyInfo", RSAKey(1)) })
    \/ AppendExtension(Extensions)
    \/ AppendExtensionByName(CertExtensionNames)
    \/ TBSGetEncodedHex
    \/ CertSign
    \/ CertSetSignatureHex(SigHexes)
    \/ CertGetEncodedHex
    \/ ListSet("asn1SignatureAlg", { AlgorithmIdentifier(name) : name \in CertAlgNames })
    \/ ListSet("asn1Issuer", { IssuerName })
    \/ ListSet("asn1ThisUpdate", { NotBefore })
    \/ ListSet("asn1NextUpdate", { NotAfter })
    \/ CRLSign
    \/ CRLGetEncodedHex

SpecCert == Init /\ [][NextCert]_vars

(***************************************************************************)
(* The constructors and converters as functions: an input is drawn, the    *)
(* function is applied to it.                                              *)
(***************************************************************************)
InitFn ==
    /\ InitJWS
    /\ \E a \in { <<>>, << KeyUsage(KeyUsageParams) >> } :
        /\ cert = Certificate([TBSCertificate EXCEPT !.extensionsArray = a], RSAKey(1))
        /\ history = [NoHistory EXCEPT !.appended = a]
    /\ crl = CRL(TBSCertList, RSAKey(1))
    /\ \/ ret \in { [op |-> "input", f |-> "BasicConstraints", params |-> p] :
                        p \in BasicConstraintsParams }
       \/ ret \in { [op |-> "input", f |-> "KeyUsage", params |-> p] :
                        p \in KeyUsageParamSet }
       \/ ret \in { [op |-> "input", f |-> "appendByNameToArray", name |-> n, a |-> a] :
                        n \in SupportedNames \cup UnsupportedNames,
                        a \in ExtensionArrays }
       \/ ret \in { [op |-> "input", f |-> "appendExtensionByName", name |-> n] :
                        n \in SupportedNames \cup UnsupportedNames }
       \/ ret \in { [op |-> "input", f |-> "onelineToLDAP", s |-> s] :
                        s \in DNStrings }

NewBasicConstraints ==
    /\ ret.op = "input"
    /\ ret.f = "BasicConstraints"
    /\ LET ext == BasicConstraints(ret.params)
       IN  ret' = [op |-> "BasicConstraints", params |-> ret.params, ext |-> ext,
                   value |-> getExtnValueHex(ext)]
    /\ UNCHANGED <<jws, origin, call, clock, cert, crl, history, jwsObj>>

NewKeyUsage ==
    /\ ret.op = "input"
    /\ ret.f = "KeyUsage"
    /\ LET ext == KeyUsage(ret.params)
       IN  ret' = [op |-> "KeyUsage", params |-> ret.params, ext |-> ext,
                   value |-> getExtnValueHex(ext)]
    /\ UNCHANGED <<jws, origin, call, clock, cert, crl, history, jwsObj>>

AppendByNameToArray ==
    /\ ret.op = "input"
    /\ ret.f = "appendByNameToArray"
    /\ \E accepted \in BOOLEAN :
        LET r == appendByNameToArray(ret.name, NoExtParams, ret.a, accepted)
        IN  ret' = [op |-> "appendByNameToArray", name |-> ret.name,
                    extParams |-> NoExtParams, a |-> ret.a,
                    accepted |-> accepted, res |-> r.res, after |-> r.a]
    /\ UNCHANGED <<jws, origin, call, clock, cert, crl, history, jwsObj>>

OnelineToLDAP ==
    /\ ret.op = "input"
    /\ ret.f = "onelineToLDAP"
    /\ ret' = [op |-> "onelineToLDAP", s |-> ret.s, res |-> onelineToLDAP(ret.s)]
    /\ UNCHANGED <<jws, origin, call, clock, cert, crl, history, jwsObj>>

LdapToOneline ==
    /\ ret.op = "onelineToLDAP"
    /\ ret.res.out = "return"
    /\ ret' = [op |-> "ldapToOneline", s |-> ret.s, ldap |-> ret.res.val,
               oneline |-> ldapToOneline(ret.res.val)]
    /\ UNCHANGED <<jws, origin, call, clock, cert, crl, history, jwsObj>>

NextFn ==
    \/ NewBasicConstraints
    \/ NewKeyUsage
    \/ AppendByNameToArray
    \/ AppendExtensionByName(IF ret.op = "input" /\ ret.f = "appendExtensionByName"
                              THEN { ret.name } ELSE {})
    \/ OnelineToLDAP
    \/ LdapToOneline

SpecFn == InitFn /\ [][NextFn]_vars

(***************************************************************************)
(* Multi-valued RDN strings: one to MaxAttrs attributes joined by '+'.     *)
(* text is the attribute as it is written, plain the 'type=value' it       *)
(* stands for.                                                             *)
(***************************************************************************)
RDNAttrs ==
    { [text |-> << "a", "=", "a" >>, plain |-> << "a", "=", "a" >>],
      [text |-> << "b", "=", "b" >>, plain |-> << "b", "=", "b" >>],
      [text |-> << "a", "=", "\"", "a", "\"" >>, plain |-> << "a", "=", "a" >>],
      [text |-> << "a", "=", "\"", "a", "+", "b", "\"" >>,
       plain |-> << "a", "=", "a", "+", "b" >>],
      [text |-> << "a", "=", "a", "\\", "+", "b" >>,
       plain |-> << "a", "=", "a", "+", "b" >>] }

RDNInputs ==
    { [s |-> Join([i \in 1..Len(l) |-> Str(l[i].text)], Str(<< "+" >>)),
       attrs |-> [i \in 1..Len(l) |-> Str(l[i].plain)]] :
        l \in UNION { [1..n -> RDNAttrs] : n \in 1..MaxAttrs } }

\* parameter bags of GeneralName: at most MaxKeys of the eight keys present
NoGeneralName ==
    [rfc822 |-> Undefined, dns |-> Undefined, uri |-> Undefined, dn |-> Undefined,
     ldapdn |-> Undefined, certissuer |-> Undefined, certsubj |-> Undefined,
     ip |-> Undefined]

PEMCert == [t |-> "str", pem |-> 1]        \* "-----BEGIN CERTIFICATE-----..."
HexCert == [t |-> "str", hexcert |-> 1]    \* the same certificate, "3082..."

GeneralNameValues ==
    [rfc822 : { Undefined, Str(<< "a" >>) },
     dns : { Undefined, Str(<< "a" >>) },
     uri : { Undefined, Str(<< "a" >>) },
     dn : { Undefined, Str(<< "/", "a", "=", "a" >>), Str(<< "/", "a" >>) },
     ldapdn : { Undefined, Str(<< "a", "=", "a" >>) },
     certissuer : { Undefined, PEMCert, HexCert },
     certsubj : { Undefined, PEMCert, HexCert },
     ip : { Undefined } \cup { [t |-> "str", ip |-> k] :
                                  k \in { "ipv4", "ipv4 of three numbers", "ipv6",
                                          "hex", "text" } }]

GeneralNameKeys == DOMAIN NoGeneralName
GeneralNameParams ==
    { Undefined } \cup { p \in GeneralNameValues : Present(p, GeneralNameKeys) <= MaxKeys }

(***************************************************************************)
(* The name classes as functions: an input is drawn, the function is       *)
(* applied to it.                                                          *)
(***************************************************************************)
InitName ==
    /\ InitJWS
    /\ cert = Certificate(TBSCertificate, RSAKey(1))
    /\ crl = CRL(TBSCertList, RSAKey(1))
    /\ history = NoHistory
    /\ \/ ret \in { [op |-> "input", f |-> "parseString", s |-> i.s, attrs |-> i.attrs] :
                        i \in RDNInputs }
       \/ ret \in { [op |-> "input", f |-> "setByString", s |-> s] : s \in DNStrings }
       \/ ret \in { [op |-> "input", f |-> "GeneralName", params |-> p] :
                        p \in GeneralNameParams }

ParseString ==
    /\ ret.op = "input"
    /\ ret.f = "parseString"
    /\ ret' = [op |-> "parseString", s |-> ret.s, attrs |-> ret.attrs,
               res |-> parseString(ret.s)]
    /\ UNCHANGED <<jws, origin, call, clock, cert, crl, history, jwsObj>>

SetByString ==
    /\ ret.op = "input"
    /\ ret.f = "setByString"
    /\ \E dsBound \in BOOLEAN :
        LET r == setByString([asn1 |-> "X500Name", asn1Array |-> <<>>, hTLV |-> Null],
                             ret.s, dsBound)
        IN  ret' = [op |-> "setByString", s |-> ret.s, dsBound |-> dsBound,
                    a1 |-> r.a1, this |-> r.this, res |-> r.res,
                    ldap |-> onelineToLDAP(ret.s)]
    /\ UNCHANGED <<jws, origin, call, clock, cert, crl, history, jwsObj>>

NewGeneralName ==
    /\ ret.op = "input"
    /\ ret.f = "GeneralName"
    /\ \E pTagBound \in BOOLEAN, dsBound \in BOOLEAN :
        ret' = [op |-> "GeneralName", params |-> ret.params,
                pTagBound |-> pTagBound, dsBound |-> dsBound,
                res |-> GeneralName(ret.params, pTagBound, dsBound)]
    /\ UNCHANGED <<jws, origin, call, clock, cert, crl, history, jwsObj>>

NextName ==
    \/ ParseString
    \/ SetByString
    \/ NewGeneralName

SpecName == InitName /\ [][NextName]_vars

(***************************************************************************)
(* One JWS object that is asked to parse one string after another.         *)
(***************************************************************************)
ParseHeaders ==
    { B64U(JSONstringify(Header(a))) : a \in { HS256, RS256 } }
    \cup { B64U([raw |-> "{"]), B64U(JSONstringify(Arr(<<>>))) }

ParseStrings ==
    { << h, Dot, Payload, Dot, BadSig >> : h \in ParseHeaders }
    \cup { << B64U(JSONstringify(Header(HS256))), Dot, Payload >>,
           << B64U(JSONstringify(Header(HS256))), Dot, Dot, BadSig >>,
           << B64U(JSONstringify(Header(HS256))), Dot, Payload, Dot, BadSig,
              Dot, BadSig >> }

\* a call of parseJWS; lastReturned is the argument of the latest call that
\* returned normally
ParseJWS(strings) ==
    /\ call.op \in { "none", "parseJWS" }
    /\ \E sJWS \in strings, sigValNotNeeded \in BOOLEAN :
        LET r == parseJWS(jwsObj, sJWS, Boolean(sigValNotNeeded))
        IN  /\ jwsObj' = r.this
            /\ call' = [op |-> "parseJWS", sJWS |-> sJWS,
                        sigValNotNeeded |-> sigValNotNeeded,
                        before |-> jwsObj, res |-> r.res,
                        lastReturned |->
                            IF r.res.out = "return" THEN sJWS
                            ELSE IF call.op = "parseJWS" THEN call.lastReturned
                            ELSE NoJWS]
    /\ UNCHANGED <<jws, origin, clock, cert, crl, ret, history>>

NextParse == ParseJWS(ParseStrings)

SpecParse == Init /\ [][NextParse]_vars

(***************************************************************************)
(* What the properties below speak about.                                  *)
(***************************************************************************)
Segments == Split(jws)

\* the header object the first segment of jws decodes to, or null
HeaderOfJWS == readSafeJSONString(b64utoutf8(Segments[1]))
HeaderAlg == IF HeaderOfJWS = Null THEN Undefined ELSE HeaderOfJWS.alg

Elements(arr) == { arr.a[i] : i \in 1..Len(arr.a) }
InTrace(trace, names) == \E i \in 1..Len(trace) : trace[i] \in names
Crypto == { "Mac", "Signature", "concatSigToASN1Sig" }

AlgFamily(alg) == Substr(alg, 0, 2)

\* kv is the key that matches the key ks a string was signed with: the same
\* shared secret for HS*, the same key pair (as object or as PEM) otherwise
Matching(alg, ks, kv) ==
    IF AlgFamily(alg) = Str(<< "H", "S" >>)
    THEN IsKeyRec(ks) /\ ks.kind = "mac" /\ kv = ks
    ELSE IsKeyRec(ks) /\ IsKeyRec(kv) /\ SigInit(ks) = SigInit(kv)

\* the last call verified, with a matching key and the list [alg], a string
\* that sign returned for alg
SignedThenVerified ==
    /\ call.op = "verify"
    /\ origin.op = "sign"
    /\ call.acceptAlgs = Arr(<< origin.alg >>)
    /\ Matching(origin.alg, origin.key, call.key)

(***************************************************************************)
(* C1 (as stated): for every algorithm name sign accepts, and every        *)
(* header, payload and matching key, verify(sign(alg, ...), key, [alg])    *)
(* returns true.                                                           *)
(***************************************************************************)
C1_AsStated == SignedThenVerified => call.res.out = "true"

(***************************************************************************)
(* C1 (amended): for every algorithm name sign accepts other than 'none',  *)
(* verify(sign(alg, ...), key, [alg]) returns true; for 'none' it raises.  *)
(***************************************************************************)
C1_SignThenVerify ==
    SignedThenVerified =>
        IF origin.alg = none THEN call.res.out = "throw"
        ELSE call.res.out = "true"

C1_Witness ==
    /\ SignedThenVerified
    /\ origin.alg = ES256
    /\ call.key = PEM("ECDSA", 1)
    /\ call.res.out = "true"

(***************************************************************************)
(* C2: for a three-segment string whose header has an alg and a non-empty  *)
(* acceptAlgs array that does not contain that alg, verify raises, before  *)
(* the key-type check and before any MAC or signature computation.         *)
(***************************************************************************)
C2_NotAcceptedRaises ==
    ( /\ call.op = "verify"
      /\ Len(Segments) = 3
      /\ HeaderAlg # Undefined
      /\ IsArray(call.acceptAlgs)
      /\ Len(call.acceptAlgs.a) > 0
      /\ HeaderAlg \notin Elements(call.acceptAlgs) )
    => /\ call.res.out = "throw"
       /\ ~InTrace(call.res.trace, Crypto \cup { "keyType" })

(***************************************************************************)
(* C3: in verify of a three-segment string, when the header alg begins     *)
(* with RS or PS and the key (after PEM conversion) is no RSAKeyEx object, *)
(* or begins with ES and the key is no ECDSA object, verify raises and the *)
(* MAC/signature engine is not invoked.                                    *)
(***************************************************************************)
KeyMismatch ==
    LET key == IF IsPEMString(call.key) THEN getKey(call.key) ELSE call.key
        fam == AlgFamily(HeaderAlg)
    IN  \/ /\ fam \in { Str(<< "R", "S" >>), Str(<< "P", "S" >>) }
           /\ ~(IsKeyRec(key) /\ key.kind = "RSAKeyEx")
        \/ /\ fam = Str(<< "E", "S" >>)
           /\ ~(IsKeyRec(key) /\ key.kind = "ECDSA")

C3_KeyTypeBinding ==
    ( /\ call.op = "verify"
      /\ Len(Segments) = 3
      /\ HeaderAlg # Undefined
      /\ KeyMismatch )
    => /\ call.res.out = "throw"
       /\ ~InTrace(call.res.trace, Crypto)

C3_Witness ==
    /\ call.op = "verify"
    /\ Len(Segments) = 3
    /\ HeaderAlg = RS256
    /\ call.key = MacKey(1)
    /\ call.acceptAlgs = Undefined
    /\ call.res.err = "key shall be a RSAKeyEx obj for RS* and PS* algs"

(***************************************************************************)
(* C4: verify never returns true for a string whose header alg is 'none',  *)
(* whatever the key and acceptAlgs (a list naming 'none' included); for a  *)
(* three-segment string the call ends in a raised error.                   *)
(***************************************************************************)
C4_NoneNeverVerifies ==
    (call.op = "verify" /\ HeaderAlg = none)
    => /\ call.res.out # "true"
       /\ Len(Segments) = 3 => call.res.out = "throw"

C4_Witness ==
    /\ call.op = "verify"
    /\ origin.op = "sign"
    /\ origin.alg = none
    /\ call.acceptAlgs = Arr(<< none >>)
    /\ call.res.err = "not supported"

(***************************************************************************)
(* C5 (as stated): verify and verifyJWT return false only when a signature *)
(* or MAC check, or a claim check, fails; for a malformed string or a      *)
(* violated policy (alg not in the accepted list, wrong key type,          *)
(* alg=none) they raise instead of returning false.                        *)
(***************************************************************************)
ClaimChecks == { "iss", "sub", "aud", "exp", "nbf", "iat", "jti" }
LastOf(q) == q[Len(q)]

C5_AsStated ==
    /\ (call.op = "verify" /\ call.res.out = "false")
         => InTrace(call.res.trace, Crypto)
    /\ (call.op = "verify" /\ Len(Segments) # 3) => call.res.out = "throw"
    /\ (call.op = "verifyJWT" /\ call.res.out = "false")
         => \/ LastOf(call.res.checks) \in ClaimChecks
            \/ InTrace(call.res.sig.trace, Crypto)

(***************************************************************************)
(* C5 (amended): verify returns false only when the string does not split  *)
(* into exactly three segments or a signature or MAC check fails (a failed *)
(* ECDSA signature conversion included); for three segments it raises when *)
(* the header is no JSON object, when its accepted-list test rejects the   *)
(* header alg, when the key type does not fit the alg family and when alg  *)
(* is 'none'.  verifyJWT returns false only when the header alg is absent  *)
(* or not in acceptField.alg, a claim check fails, or verify returns       *)
(* false.                                                                  *)
(***************************************************************************)
C5_FalseOnlyWhen ==
    /\ (call.op = "verify" /\ call.res.out = "false")
         => (Len(Segments) # 3 \/ InTrace(call.res.trace, Crypto))
    /\ (call.op = "verify" /\ Len(Segments) = 3)
         => /\ HeaderOfJWS = Null => call.res.out = "throw"
            /\ ( /\ HeaderAlg # Undefined
                 /\ \/ HeaderAlg = none
                    \/ KeyMismatch
                    \/ /\ IsArray(call.acceptAlgs)
                       /\ Len(call.acceptAlgs.a) > 0
                       /\ ~algAccepted(HeaderAlg, call.acceptAlgs) )
               => call.res.out = "throw"
    /\ (call.op = "verifyJWT" /\ call.res.out = "false")
         => \/ LastOf(call.res.checks) \in ClaimChecks \cup { "alg" }
            \/ /\ LastOf(call.res.checks) = "verify"
               /\ call.res.sig.out = "false"

C5_Witness ==
    /\ call.op = "verify"
    /\ Len(Segments) = 2
    /\ HeaderAlg = HS256
    /\ call.res.out = "false"

(***************************************************************************)
(* C8 (as stated): verifyJWT raises whenever acceptField.alg is absent,    *)
(* for every token, whatever its header and payload contain.               *)
(***************************************************************************)
AcceptAlgAbsent ==
    /\ call.op = "verifyJWT"
    /\ (call.acceptField = Undefined \/ call.acceptField.alg = Undefined)

C8_AsStated == AcceptAlgAbsent => call.res.out = "throw"

(***************************************************************************)
(* C8 (amended): when acceptField.alg is absent, verifyJWT raises for      *)
(* every token except one whose header is a JSON object without an alg     *)
(* member; for such a token of three or more segments it returns false.    *)
(***************************************************************************)
HeaderWithoutAlg == HeaderOfJWS # Null /\ HeaderAlg = Undefined

C8_AlgMandatory ==
    AcceptAlgAbsent =>
        /\ ~HeaderWithoutAlg => call.res.out = "throw"
        /\ (HeaderWithoutAlg /\ Len(Segments) >= 3) => call.res.out = "false"

C8_Witness ==
    /\ AcceptAlgAbsent
    /\ origin.op = "sign"
    /\ HeaderAlg = HS256
    /\ call.res.err = "acceptField.alg shall be specified"

(***************************************************************************)
(* C10: in every successful sign, the alg of the emitted header is the     *)
(* algorithm the string was signed with.  An alg argument with a header    *)
(* without alg puts the argument into the header; an empty or null         *)
(* argument with a header alg signs with the header alg; an argument and a *)
(* header alg that differ raise and no string is produced.                 *)
(***************************************************************************)
\* the signature algorithm recorded in the third segment of jws
SignedWith ==
    LET hSig == b64utohex(Segments[3])
    IN  IF hSig = EmptyStr THEN none
        ELSE IF "mac" \in DOMAIN hSig THEN hSig.mac
        ELSE IF "concat" \in DOMAIN hSig THEN hSig.concat.sig
        ELSE hSig.sig

SignArgGiven == call.alg # Null /\ call.alg # Str(<<>>)
SignHeaderArg ==
    IF call.spHeader.ty = "object" THEN call.spHeader.val
    ELSE IF call.spHeader.ty = "string" THEN readSafeJSONString(call.spHeader.val)
    ELSE Null

C10_AlgReconciled ==
    (call.op = "sign" /\ SignHeaderArg # Null) =>
        LET hdrAlg == SignHeaderArg.alg
        IN  /\ call.res.out = "return"
              => /\ Len(Segments) = 3
                 /\ HeaderAlg # Undefined
                 /\ SignedWith = jwsalg2sigalg(HeaderAlg)
                 /\ (SignArgGiven /\ hdrAlg = Undefined) => HeaderAlg = call.alg
                 /\ (~SignArgGiven /\ hdrAlg # Undefined) => HeaderAlg = hdrAlg
            /\ (SignArgGiven /\ hdrAlg # Undefined /\ call.alg # hdrAlg)
              => /\ call.res.out = "throw"
                 /\ jws = NoJWS

C10_Witness ==
    /\ call.op = "sign"
    /\ call.alg = RS256
    /\ call.spHeader = [ty |-> "string", val |-> JSONstringify(Header(Undefined))]
    /\ call.res.out = "return"
    /\ HeaderAlg = RS256
    /\ SignedWith = Cat(SHA256, withRSA)

(***************************************************************************)
(* The checks of verifyJWT, stated on the token and the accept fields of   *)
(* the call: which checks apply, and which pass.                           *)
(***************************************************************************)
PayloadOfJWS == readSafeJSONString(b64utoutf8(Segments[2]))

\* the call runs through the checks without a TypeError
JWTChecked ==
    /\ call.op = "verifyJWT"
    /\ Len(Segments) >= 3
    /\ HeaderOfJWS # Null
    /\ PayloadOfJWS # Null
    /\ call.acceptField # Undefined
    /\ IsArray(call.acceptField.alg)
    /\ PayloadOfJWS.aud # Null

ValidationTime ==
    IF IsNumber(call.acceptField.verifyAt) THEN call.acceptField.verifyAt.n
    ELSE call.now
Grace ==
    IF IsNumber(call.acceptField.gracePeriod) THEN call.acceptField.gracePeriod.n
    ELSE 0

CheckOrder == << "alg", "iss", "sub", "aud", "exp", "nbf", "iat", "jti" >>

Applies(name) ==
    LET p  == PayloadOfJWS
        af == call.acceptField
    IN  CASE name = "alg" -> TRUE
          [] name \in { "iss", "sub", "aud" } ->
                p[name] # Undefined /\ IsArray(af[name])
          [] name \in { "exp", "nbf", "iat" } -> IsNumber(p[name])
          [] name = "jti" -> p.jti # Undefined /\ af.jti # Undefined

Passes(name) ==
    LET p  == PayloadOfJWS
        af == call.acceptField
    IN  CASE name = "alg" ->
                HeaderAlg # Undefined /\ HeaderAlg \in Elements(af.alg)
          [] name \in { "iss", "sub" } -> p[name] \in Elements(af[name])
          [] name = "aud" ->
                IF IsArray(p.aud) THEN Elements(p.aud) \subseteq Elements(af.aud)
                ELSE p.aud \in Elements(af.aud)
          [] name = "exp" -> p.exp.n + Grace >= ValidationTime
          [] name \in { "nbf", "iat" } -> ValidationTime >= p[name].n - Grace
          [] name = "jti" -> p.jti = af.jti

\* the checks that apply to the call, and those among them that fail
CheckNames == ClaimChecks \cup { "alg" }
Applied == { n \in CheckNames : Applies(n) }
Failing == { n \in Applied : ~Passes(n) }

EarlierPass(k, failing) == \A j \in 1..(k - 1) : CheckOrder[j] \notin failing
RejectedAt(name) == call.res.out = "false" /\ LastOf(call.res.checks) = name

\* the checks that run: those that apply, up to the first one that fails
RECURSIVE ChecksFrom(_, _, _)
ChecksFrom(k, applied, failing) ==
    IF k > Len(CheckOrder) THEN <<>>
    ELSE IF CheckOrder[k] \notin applied THEN ChecksFrom(k + 1, applied, failing)
    ELSE IF CheckOrder[k] \notin failing
    THEN << CheckOrder[k] >> \o ChecksFrom(k + 1, applied, failing)
    ELSE << CheckOrder[k] >>

(***************************************************************************)
(* C6: verifyJWT returns true only if every applicable check (alg, iss,    *)
(* sub, aud, exp, nbf, iat, jti) passes and verify returns true; at the    *)
(* first failing check it returns false, no later check is evaluated and   *)
(* verify is not called; when no check fails the outcome is that of        *)
(* verify(sJWT, key, acceptField.alg).                                     *)
(***************************************************************************)
C6_AllChecksInOrder ==
    JWTChecked =>
        LET applied == Applied
            failing == Failing
            run == ChecksFrom(1, applied, failing)
        IN  IF failing # {}
            THEN /\ call.res.out = "false"
                 /\ call.res.checks = run
                 /\ LastOf(run) \in failing
                 /\ call.res.sig = NoVerify
            ELSE /\ call.res.checks = run \o << "verify" >>
                 /\ call.res.sig = verify(jws, call.key, call.acceptField.alg)
                 /\ call.res.out = call.res.sig.out

C6_Witness ==
    /\ JWTChecked
    /\ origin.op = "sign"
    /\ { "iss", "exp" } \subseteq Failing
    /\ call.res.out = "false"
    /\ call.res.checks = << "alg", "iss" >>

(***************************************************************************)
(* C7: with now = acceptField.verifyAt when that is a number and the wall  *)
(* clock otherwise, and g = acceptField.gracePeriod when that is a number  *)
(* and 0 otherwise, a numeric exp passes iff exp + g >= now and a numeric  *)
(* nbf or iat passes iff now >= nbf - g (iat - g).  So, when all other     *)
(* checks pass, a token with exp = now - 10 is rejected with g = 0 and     *)
(* accepted with g = 20.                                                   *)
(***************************************************************************)
SignatureGood == verify(jws, call.key, call.acceptField.alg).out = "true"

C9_Membership ==
    JWTChecked =>
        LET applied == Applied
            failing == Failing
        IN  \A k \in { 2, 3, 4 } :
                (CheckOrder[k] \in applied /\ EarlierPass(k, failing))
                  => /\ InTrace(call.res.checks, { CheckOrder[k] })
                     /\ RejectedAt(CheckOrder[k]) <=> CheckOrder[k] \in failing

C9_Witness ==
    /\ JWTChecked
    /\ PayloadOfJWS.aud = Arr(<< B, A >>)
    /\ call.acceptField.aud = Arr(<< A, B >>)
    /\ call.res.checks = << "alg", "aud", "verify" >>
    /\ call.res.out = "true"

(***************************************************************************)
(* X.509 claims.                                                           *)
(***************************************************************************)
CertAsked == ret.op = "Certificate.getEncodedHex"
NotSigned == Raise("not signed yet")

(***************************************************************************)
(* C11: in every state reached before a successful sign() or               *)
(* setSignatureHex(), Certificate.getEncodedHex raises the not-signed      *)
(* error; once one of them has succeeded, a getEncodedHex() call that      *)
(* directly follows a getEncodedHex() call returns the same encoding.      *)
(***************************************************************************)
C11_NotSignedThenStable ==
    /\ [](CertAsked /\ history.signedOver = Null => ret.res = NotSigned)
    /\ [][CertAsked /\ history.signedOver # Null /\ ret'.op = "Certificate.getEncodedHex"
            => ret.res.out = "return" /\ ret'.res = ret.res]_vars

C11_Witness ==
    /\ CertAsked
    /\ history.signedOver # Null
    /\ ret.res.out = "return"
    /\ ret.res.val = cert.hTLV

(***************************************************************************)
(* C12: after a successful sign() or setSignatureHex(), once a field of    *)
(* the TBSCertificate differs from what was signed, getEncodedHex() of the *)
(* certificate raises the not-signed error (it does not return the         *)
(* encoding of the fields as they were).                                   *)
(***************************************************************************)
Changed == history.signedOver # Null /\ Fields(cert.asn1TBSCert) # history.signedOver

C12_ChangeUnsigns == CertAsked /\ Changed => ret.res = NotSigned

(***************************************************************************)
(* The encoding a TBSCertificate.getEncodedHex call returned.              *)
(***************************************************************************)
Emitted      == ret.op = "TBSCertificate.getEncodedHex" /\ ret.res.out = "return"
EmittedSeq   == ret.res.val.seq
VersionField == [tag |-> "a0", explicit |-> TRUE, seq |-> << [tag |-> "02", int |-> 2] >>]
IsVersion(e)    == e.tag = "a0"
IsExtensions(e) == e.tag = "a3"

(***************************************************************************)
(* C13, as stated: the encoded SEQUENCE holds the [0] version field        *)
(* exactly when the extension list is not empty.                           *)
(***************************************************************************)
C13_AsStated ==
    Emitted =>
        ((\E i \in 1..Len(EmittedSeq) : IsVersion(EmittedSeq[i]))
            <=> Len(ret.fields.extensionsArray) >= 1)

(***************************************************************************)
(* C13, amended: every encoded SEQUENCE starts with the explicit [0]       *)
(* version field of value 2 (v3), whether or not the extension list is     *)
(* empty, and holds no other [0] field.                                    *)
(***************************************************************************)
C13_VersionAlways ==
    Emitted =>
        /\ EmittedSeq[1] = VersionField
        /\ \A i \in 2..Len(EmittedSeq) : ~IsVersion(EmittedSeq[i])

C13_Witness ==
    /\ Emitted
    /\ ret.fields.extensionsArray = <<>>
    /\ EmittedSeq[1] = VersionField

(***************************************************************************)
(* C14: when one of serial number, signature algorithm, issuer, notBefore, *)
(* notAfter, subject and subject public key is not set,                    *)
(* TBSCertificate.getEncodedHex raises and leaves no encoding behind.      *)
(***************************************************************************)
Mandatory ==
    { "asn1SerialNumber", "asn1SignatureAlg", "asn1Issuer", "asn1NotBefore",
      "asn1NotAfter", "asn1Subject", "asn1SubjPKey" }
Unset(fields) == { f \in Mandatory : fields[f] = Null }

C14_MandatoryFields ==
    (ret.op = "TBSCertificate.getEncodedHex" /\ Unset(ret.fields) # {})
        => /\ ret.res.out = "throw"
           /\ ret.res.val = Undefined
           /\ cert.asn1TBSCert.hTLV = Null

C14_Witness ==
    /\ ret.op = "TBSCertificate.getEncodedHex"
    /\ Unset(ret.fields) = { "asn1SerialNumber" }
    /\ ret.res.out = "throw"

(***************************************************************************)
(* C20: the encoded SEQUENCE ends with one explicit [3] field that holds   *)
(* one SEQUENCE of the extensions in the order of the appendExtension and  *)
(* appendExtensionByName calls; when no extension was appended it holds no *)
(* [3] field.                                                              *)
(***************************************************************************)
ExtensionsField(exts) ==
    [tag |-> "a3", explicit |-> TRUE,
     seq |-> << [tag |-> "30",
                 seq |-> [i \in 1..Len(exts) |-> x500ExtensionHex(exts[i]).val]] >>]

C20_ExtensionOrder ==
    Emitted =>
        LET n == Len(EmittedSeq)
        IN  IF history.appended = <<>>
            THEN \A i \in 1..n : ~IsExtensions(EmittedSeq[i])
            ELSE /\ EmittedSeq[n] = ExtensionsField(history.appended)
                 /\ \A i \in 1..(n - 1) : ~IsExtensions(EmittedSeq[i])

C20_Witness ==
    /\ Emitted
    /\ Len(history.appended) = 2
    /\ history.appended[1].ext = "KeyUsage"
    /\ history.appended[2].ext = "BasicConstraints"
    /\ EmittedSeq[Len(EmittedSeq)] = ExtensionsField(history.appended)

(***************************************************************************)
(* C15: appendByNameToArray and appendExtensionByName, called with a name  *)
(* that is one of the eight supported names in any letter case, append one *)
(* extension of that kind behind the elements the list had; called with    *)
(* another name they raise the unsupported-extension error and leave the   *)
(* list as it was.                                                         *)
(***************************************************************************)
ByNameCalled == ret.op \in { "appendByNameToArray", "appendExtensionByName" }
KindOf(name) == CHOOSE k \in DOMAIN NamesOf : name \in NamesOf[k]
AppendedOne(kind) ==
    /\ ret.res.out = "return"
    /\ Len(ret.after) = Len(ret.a) + 1
    /\ SubSeq(ret.after, 1, Len(ret.a)) = ret.a
    /\ ret.after[Len(ret.after)].ext = kind
Unsupported ==
    /\ ret.res = Raise("unsupported extension name: ")
    /\ ret.after = ret.a

C15_ByNameAppends ==
    ByNameCalled =>
        IF ret.name \in SupportedNames THEN AppendedOne(KindOf(ret.name))
        ELSE Unsupported

\* the same for the calls of a function that was read as its author meant it
C15_WhereAccepted ==
    ByNameCalled /\ ret.accepted =>
        IF ret.name \in SupportedNames THEN AppendedOne(KindOf(ret.name))
        ELSE Unsupported

(***************************************************************************)
(* C16: the value of BasicConstraints is the SEQUENCE of BOOLEAN TRUE, if  *)
(* cA is true, and INTEGER pathLen, if pathLen is given and not negative,  *)
(* in this order and nothing else; the empty SEQUENCE with neither.        *)
(***************************************************************************)
C16_BasicConstraintsValue ==
    ret.op = "BasicConstraints" =>
        LET cA == ret.params.cA = Boolean(TRUE)
            len == ret.params.pathLen # Undefined /\ ret.params.pathLen.n >= 0
        IN  ret.value =
                Ret([tag |-> "30",
                     seq |-> (IF cA THEN << [tag |-> "01", bool |-> TRUE] >> ELSE <<>>)
                               \o (IF len
                                   THEN << [tag |-> "02", int |-> ret.params.pathLen.n] >>
                                   ELSE <<>>)])

C16_Witness ==
    /\ ret.op = "BasicConstraints"
    /\ ret.params.cA = Boolean(TRUE)
    /\ ret.params.pathLen = Num(0)
    /\ ret.value.val.seq = << [tag |-> "01", bool |-> TRUE], [tag |-> "02", int |-> 0] >>

(***************************************************************************)
(* C17: KeyUsage built from a list of names holds a string of nine bits,   *)
(* bit j being 1 exactly when the j-th name of the key usage table is in   *)
(* the list, whatever the order and the repetitions of the list;           *)
(* digitalSignature and keyAgreement are bits 0 and 4.                     *)
(***************************************************************************)
NamesGiven == ret.op = "KeyUsage" /\ ret.params.names # Undefined
NameSet == { ret.params.names.a[i] : i \in 1..Len(ret.params.names.a) }
BitsOf(names) ==
    [j \in 1..9 |-> IF KEYUSAGE_NAME[j] \in names THEN "1" ELSE "0"]

C17_KeyUsageBits ==
    NamesGiven =>
        /\ ret.ext.asn1ExtnValue = New("DERBitString", [bin |-> Str(BitsOf(NameSet))])
        /\ KEYUSAGE_NAME[1] = "digitalSignature"
        /\ KEYUSAGE_NAME[5] = "keyAgreement"

C17_Witness ==
    /\ NamesGiven
    /\ ret.params.names.a = << "keyAgreement", "digitalSignature", "keyAgreement" >>
    /\ ret.ext.asn1ExtnValue.params.bin.s
         = << "1", "0", "0", "0", "1", "0", "0", "0", "0" >>

(***************************************************************************)
(* C18: for a oneline name that starts with '/' and holds no ',', no '+'   *)
(* and no backslash (and so no '/' inside a component), onelineToLDAP      *)
(* returns and ldapToOneline gives the name back.                          *)
(***************************************************************************)
Plain(s) ==
    /\ Len(s.s) >= 1
    /\ s.s[1] = "/"
    /\ \A i \in 1..Len(s.s) : s.s[i] \notin { ",", "+", "\\" }

C18_RoundTrip ==
    /\ (ret.op = "onelineToLDAP" /\ Plain(ret.s)) => ret.res.out = "return"
    /\ (ret.op = "ldapToOneline" /\ Plain(ret.s)) => ret.oneline = ret.s

C18_Witness ==
    /\ ret.op = "ldapToOneline"
    /\ ret.s = Str(<< "/", "a", "/", "=" >>)
    /\ ret.ldap = Str(<< "=", ",", "a" >>)
    /\ ret.oneline = ret.s

(***************************************************************************)
(* C19: a sign() of a certificate or of a CRL whose TBS object is complete *)
(* returns; the signature is computed over the encoding of the TBS object  *)
(* with the algorithm its signature algorithm identifier names, and the    *)
(* second element of the outer SEQUENCE is the encoding of that            *)
(* identifier.                                                             *)
(***************************************************************************)
SignedAsDeclared(signed, t) ==
    /\ ret.res.out = "return"
    /\ signed.hexSig.sig = t.asn1SignatureAlg.nameAlg
    /\ signed.hexSig.msg = getEncodedHex(t).val
    /\ signed.hTLV.seq[2] = getEncodedHex(t.asn1SignatureAlg).val

ListComplete(t) ==
    t.asn1SignatureAlg # Null /\ t.asn1Issuer # Null /\ t.asn1ThisUpdate # Null

C19_CertificateSign ==
    (ret.op = "Certificate.sign" /\ Unset(Fields(cert.asn1TBSCert)) = {})
        => SignedAsDeclared(cert, cert.asn1TBSCert)

C19_DeclaredAlgorithm ==
    /\ C19_CertificateSign
    /\ (ret.op = "CRL.sign" /\ ListComplete(crl.asn1TBSCertList))
        => SignedAsDeclared(crl, crl.asn1TBSCertList)

(***************************************************************************)
(* C23: X500Name.onelineToLDAP(s), for s starting with '/', returns the    *)
(* '/'-separated components of s in reverse order joined by ',', with      *)
(* every ',' inside a component escaped as '\,'; for s not starting with   *)
(* '/' it raises a format error.                                           *)
(***************************************************************************)
EveryCommaEscaped(s) ==
    LET a == Reverse(SplitOn(SubSeq(s.s, 2, Len(s.s)), "/"))
    IN  Join([i \in 1..Len(a) |-> ReplaceAll(a[i], << "," >>, << "\\", "," >>)],
             Str(<< "," >>))

C23_EveryCommaEscaped ==
    ret.op = "onelineToLDAP" =>
        IF Len(ret.s.s) >= 1 /\ ret.s.s[1] = "/"
        THEN ret.res = Ret(EveryCommaEscaped(ret.s))
        ELSE ret.res = Raise("malformed input")

\* what holds: the first ',' of each component is escaped, the rejection of
\* a name without the leading '/' is as stated
C23_FirstCommaEscaped ==
    ret.op = "onelineToLDAP" =>
        IF Len(ret.s.s) >= 1 /\ ret.s.s[1] = "/"
        THEN LET a == Reverse(SplitOn(SubSeq(ret.s.s, 2, Len(ret.s.s)), "/"))
                 Commas(x) == { i \in 1..Len(x.s) : x.s[i] = "," }
             IN  /\ ret.res.out = "return"
                 /\ (\A i \in 1..Len(a) : Cardinality(Commas(a[i])) <= 1)
                      => ret.res.val = EveryCommaEscaped(ret.s)
        ELSE ret.res = Raise("malformed input")

(***************************************************************************)
(* C28: verifyJWT leaves its acceptField argument unchanged: after the     *)
(* call, whatever its outcome, every key of acceptField (gracePeriod       *)
(* included) has the value, or the absence, it had before the call.        *)
(***************************************************************************)
C28_AcceptFieldUnchanged ==
    call.op = "verifyJWT" => call.res.acceptField = call.acceptField

\* what holds: only gracePeriod is written, with 0, when it is not a number
\* and the call reaches the time checks
C28_OnlyGracePeriod ==
    call.op = "verifyJWT" =>
        \/ call.res.acceptField = call.acceptField
        \/ /\ ~IsNumber(call.acceptField.gracePeriod)
           /\ call.res.acceptField = [call.acceptField EXCEPT !.gracePeriod = Num(0)]

(***************************************************************************)
(* C29: in verifyJWT a payload exp, nbf or iat whose value is not a number *)
(* (a numeric string, say) is skipped by the time-window check: the token  *)
(* is never rejected as expired or not yet valid on its account, and the   *)
(* result is decided by the remaining checks alone.                        *)
(***************************************************************************)
TimeClaims == { "exp", "nbf", "iat" }
NotANumber == { n \in TimeClaims :
                  PayloadOfJWS[n] # Undefined /\ TypeOf(PayloadOfJWS[n]) # "number" }

C29_NonNumberSkipped ==
    (JWTChecked /\ NotANumber # {}) =>
        LET others  == { n \in CheckNames \ NotANumber : Applies(n) }
            failing == { n \in others : ~Passes(n) }
            run     == ChecksFrom(1, others, failing)
        IN  /\ \A n \in NotANumber :
                 ~InTrace(call.res.checks, { n }) /\ ~RejectedAt(n)
            /\ IF failing # {}
               THEN call.res.out = "false" /\ call.res.checks = run
               ELSE /\ call.res.checks = run \o << "verify" >>
                    /\ call.res.out = verify(jws, call.key, call.acceptField.alg).out

C29_Witness ==
    /\ JWTChecked
    /\ origin.op = "sign"
    /\ PayloadOfJWS.exp = Str(<< "1" >>)
    /\ PayloadOfJWS.nbf = Str(<< "1" >>)
    /\ call.acceptField.verifyAt = Num(11)
    /\ call.acceptField.gracePeriod = Undefined
    /\ call.res.checks = << "alg", "verify" >>
    /\ call.res.out = "true"

(***************************************************************************)
(* C26: on one JWS object, after any sequence of parseJWS calls, the       *)
(* parsedJWS fields headB64U, payloadB64U, sigvalB64U, si and headP        *)
(* describe the string passed to the most recent parseJWS call that        *)
(* returned normally.                                                      *)
(***************************************************************************)
Describes(p, sJWS) ==
    LET a == Split(sJWS)
    IN  /\ p # Undefined
        /\ p.headB64U = a[1]
        /\ p.payloadB64U = a[2]
        /\ p.sigvalB64U = a[3]
        /\ p.si = a[1] \o << Dot >> \o a[2]
        /\ p.headP = JSONparse(b64utoutf8(a[1])).val

C26_LatestParse ==
    (call.op = "parseJWS" /\ call.lastReturned # NoJWS)
        => Describes(jwsObj.parsedJWS, call.lastReturned)

\* what holds: a call that finds no parsedJWS and returns normally leaves
\* the fields of its string
C26_FirstParse ==
    (call.op = "parseJWS" /\ call.before = JWS /\ call.res.out = "return")
        => Describes(jwsObj.parsedJWS, call.sJWS)

(***************************************************************************)
(* C27: when JWS.parseJWS raises (input not in three-segment form, or      *)
(* header not a JSON object), the object's parsedJWS is left exactly as it *)
(* was before the call, so that a later parseJWS call on the same object   *)
(* with the same malformed input raises again.                             *)
(***************************************************************************)
C27_RaiseLeavesParsedJWS ==
    (call.op = "parseJWS" /\ call.res.out = "throw") => jwsObj = call.before

\* the consequence the claim draws: the same input raises again
C27_RaisesAgain ==
    [][(call.op = "parseJWS" /\ call.res.out = "throw" /\ call'.sJWS = call.sJWS)
          => call'.res.out = "throw"]_vars

\* what holds for an input that is not in three-segment form
C27_FormErrorLeavesParsedJWS ==
    (call.op = "parseJWS" /\ call.res.out = "throw" /\ Len(Split(call.sJWS)) # 3)
        => jwsObj = call.before

(***************************************************************************)
(* C21: every GeneralName that is constructed successfully carries exactly *)
(* one variant, and its tag is fixed by that variant: rfc822 -> implicit   *)
(* [1], dns -> implicit [2], uri -> implicit [6], ip -> implicit [7], and  *)
(* dn / ldapdn / certissuer / certsubj -> explicit constructed [4]; a      *)
(* parameter bag with none of these keys raises the unsupported-variant    *)
(* error.                                                                  *)
(***************************************************************************)
GeneralNameMade == ret.op = "GeneralName"
KeysGiven ==
    IF ret.params = Undefined THEN {}
    ELSE { k \in GeneralNameKeys : ret.params[k] # Undefined }

\* the tag and the tagging mode of the variant a key selects
VariantTag(key) ==
    CASE key = "rfc822" -> [tag |-> "81", explicit |-> FALSE]
      [] key = "dns"    -> [tag |-> "82", explicit |-> FALSE]
      [] key = "uri"    -> [tag |-> "86", explicit |-> FALSE]
      [] key = "ip"     -> [tag |-> "87", explicit |-> FALSE]
      [] OTHER          -> [tag |-> "a4", explicit |-> TRUE]

\* keys whose value no variant refuses: a plain string, a name with an
\* attribute, a PEM certificate, an IP address in one of the three forms
WellFormed(key) ==
    CASE key \in { "rfc822", "dns", "uri", "ldapdn" } -> TRUE
      [] key = "dn" -> ret.params.dn = Str(<< "/", "a", "=", "a" >>)
      [] key \in { "certissuer", "certsubj" } -> ret.params[key] = PEMCert
      [] key = "ip" -> ret.params.ip.ip \in { "ipv4", "ipv6", "hex" }

C21_OneVariantOneTag ==
    GeneralNameMade =>
        /\ ret.res.out = "return" =>
              \E k \in KeysGiven :
                  /\ ret.res.val.asn1Obj # Null
                  /\ ret.res.val.asn1Obj.params.tag = VariantTag(k).tag
                  /\ ret.res.val.asn1Obj.params.explicit = VariantTag(k).explicit
        /\ (Cardinality(KeysGiven) = 1 /\ \A k \in KeysGiven : WellFormed(k))
              => ret.res.out = "return"
        /\ (ret.params # Undefined /\ KeysGiven = {})
              => ret.res = Raise("unsupported type in params=")

\* what holds where the environment binds pTag and defaultDSType
C21_WhereBound ==
    (GeneralNameMade /\ ret.pTagBound /\ ret.dsBound /\ ret.params # Undefined) =>
        /\ ret.res.out = "return" =>
              \E k \in KeysGiven :
                  /\ ret.res.val.asn1Obj.params.tag = VariantTag(k).tag
                  /\ ret.res.val.asn1Obj.params.explicit = VariantTag(k).explicit
        /\ (Cardinality(KeysGiven) = 1 /\ \A k \in KeysGiven : WellFormed(k))
              => ret.res.out = "return"
        /\ KeysGiven = {} => ret.res = Raise("unsupported type in params=")

(***************************************************************************)
(* C22: GeneralName built with certissuer or certsubj accepts the          *)
(* certificate both as a PEM string and as a hex-encoded string: for       *)
(* either form it obtains the issuer (subject) DN from the certificate     *)
(* parser and does not raise a 'not cert' error.                           *)
(***************************************************************************)
CertKeys == { "certissuer", "certsubj" }
NotCert  == { "certissuer param not cert", "certsubj param not cert" }

C22_PemAndHex ==
    (GeneralNameMade /\ KeysGiven # {} /\ KeysGiven \subseteq CertKeys) =>
        /\ ret.res.err \notin NotCert
        /\ ret.res.out = "return" =>
              \E k \in KeysGiven :
                  ret.res.val.asn1Obj.params.obj.hTLV = [dnOf |-> 1, field |-> k]

\* what holds: a PEM string is accepted, a hex string is refused
C22_PemOnly ==
    (GeneralNameMade /\ Cardinality(KeysGiven) = 1 /\ KeysGiven \subseteq CertKeys) =>
        \A k \in KeysGiven :
            IF ret.params[k] = PEMCert
            THEN ret.res.err \notin NotCert
            ELSE ret.res.err \in NotCert

(***************************************************************************)
(* C24: RDN.parseString returns, in input order, one 'type=value' string   *)
(* per attribute of the multi-valued RDN, where attributes are separated   *)
(* by a '+' that is neither backslash-escaped nor inside a double-quoted   *)
(* value, and the escaping backslashes and the enclosing double quotes are *)
(* removed from the returned values ('CN="jo+hn"+OU=test' and              *)
(* 'CN=jo\+hn+OU=test' both give ['CN=jo+hn', 'OU=test']).                 *)
(***************************************************************************)
C24_OnePerAttribute ==
    ret.op = "parseString" => ret.res = ret.attrs

\* what holds: the claim, for strings in which every double-quoted value
\* holds a '+'
QuotedWithoutPlus == << "a", "=", "\"", "a", "\"" >>
Holds(s, t) == \E i \in 0..(Len(s) - Len(t)) : SubSeq(s, i + 1, i + Len(t)) = t

C24_WhereQuotesHoldPlus ==
    (ret.op = "parseString" /\ ~Holds(ret.s.s, QuotedWithoutPlus))
        => ret.res = ret.attrs

(***************************************************************************)
(* C25: X500Name.setByString, for a string starting with '/', creates one  *)
(* RDN per '/'-separated segment that matches type=value, in input order,  *)
(* and rejoins every non-matching segment with '/' onto the value of the   *)
(* preceding RDN, so that the RDN strings joined by '/' equal the input    *)
(* after its leading '/' (no segment is dropped).                          *)
(***************************************************************************)
StartsWithSlash(s) == Len(s.s) >= 1 /\ s.s[1] = "/"

C25_NoSegmentDropped ==
    (ret.op = "setByString" /\ StartsWithSlash(ret.s)) =>
        /\ Join(ret.a1, Str(<< "/" >>)) = Str(Tail(ret.s.s))
        /\ ret.res.out = "return"
        /\ Len(ret.this.asn1Array) = Len(ret.a1)

\* what holds: the same, when the first segment matches type=value, for the
\* RDN strings (the RDNs themselves may fail to build)
C25_WhereFirstMatches ==
    ( /\ ret.op = "setByString"
      /\ StartsWithSlash(ret.s)
      /\ LET first == Head(SplitOn(Tail(ret.s.s), "/")).s
         IN  MatchType(first) # 0 /\ Len(first) > MatchType(first) )
        => Join(ret.a1, Str(<< "/" >>)) = Str(Tail(ret.s.s))

(***************************************************************************)
(* C30: X500Name.setByString never raises for a DN string that does not    *)
(* start with '/': it discards everything before the first '/' (so         *)
(* 'C=US/O=a' yields the single RDN O=a), unlike onelineToLDAP, which      *)
(* rejects the same input.                                                 *)
(***************************************************************************)
C30_NeverRaises ==
    (ret.op = "setByString" /\ ~StartsWithSlash(ret.s)) =>
        /\ ret.res.out = "return"
        /\ ret.a1 = rdnStrings(Tail(SplitOn(ret.s.s, "/")), <<>>)
        /\ Len(ret.this.asn1Array) = Len(ret.a1)
        /\ ret.ldap = Raise("malformed input")

\* what holds: the part before the first '/' plays no role, and
\* onelineToLDAP rejects the string
C30_PrefixDiscarded ==
    (ret.op = "setByString" /\ ~StartsWithSlash(ret.s)) =>
        /\ \A i \in 1..Len(ret.a1) : Holds(ret.s.s, << "/" >> \o ret.a1[i].s)
        /\ ret.res.out = "return" => Len(ret.this.asn1Array) = Len(ret.a1)
        /\ ret.ldap = Raise("malformed input")

====
